---- MODULE Spec2Model ----
(***************************************************************************)
(* AlgoLang execution engine: the tree-walking interpreter of              *)
(* services/algo/interpreter.ts driven as a generator.                     *)
(*                                                                         *)
(* A handle is the generator object returned by Interpreter.execute(ast).  *)
(* Its position is kept as an explicit stack of generator frames (ctl);    *)
(* the interpreter object's fields callStack and functions, and the heap   *)
(* of JavaScript array objects, are the shared state.  Expression          *)
(* evaluation and the synchronous executor are operators, as they run to   *)
(* completion inside one call of next().                                   *)
(***************************************************************************)
EXTENDS Integers, Sequences, FiniteSets, TLC

(***************************************************************************)
(* Bounds of the model.                                                    *)
(***************************************************************************)
\* statements the synchronous executor may run inside one evaluation before
\* the run is taken to be a loop that never returns
MaxSyncSteps == 12
\* events a handle may emit before the host stops advancing it
MaxEvents == 14
\* generator steps one advance is followed for when its outcome is computed
MaxRunSteps == 40
\* characters of a source text given to the lexer
MaxSourceLen == 4

(***************************************************************************)
(* Runtime values (the `any` held in RuntimeValue.value).  JavaScript      *)
(* values are tagged: t is the type, n the number (or the heap address of  *)
(* an array object, or 0/1 of a boolean), s the characters of a string (or *)
(* the fractional digits of a non-integral number), a the elements of an   *)
(* array held by value (a JSON copy, shared with nothing).                 *)
(***************************************************************************)
NumV(i) == [t |-> "num", n |-> i, s |-> <<>>, a |-> <<>>]
FracV(i, digits) == [t |-> "num", n |-> i, s |-> digits, a |-> <<>>]
BoolV(b) == [t |-> "bool", n |-> IF b THEN 1 ELSE 0, s |-> <<>>, a |-> <<>>]
StrV(chars) == [t |-> "str", n |-> 0, s |-> chars, a |-> <<>>]
RefV(addr) == [t |-> "ref", n |-> addr, s |-> <<>>, a |-> <<>>]
ArrV(elems) == [t |-> "arr", n |-> 0, s |-> <<>>, a |-> elems]
NullV == [t |-> "null", n |-> 0, s |-> <<>>, a |-> <<>>]
UndefV == [t |-> "undef", n |-> 0, s |-> <<>>, a |-> <<>>]
NaNV == [t |-> "nan", n |-> 0, s |-> <<>>, a |-> <<>>]

IsInt(v) == v.t = "num" /\ v.s = <<>>

\* Array.isArray
IsArray(v) == v.t = "ref"

\* JavaScript truthiness, as used by if (...) and while (...)
Truthy(v) ==
    CASE v.t = "num" -> ~(v.n = 0 /\ v.s = <<>>)
      [] v.t = "bool" -> v.n = 1
      [] v.t = "str" -> v.s # <<>>
      [] v.t \in {"ref", "arr"} -> TRUE
      [] OTHER -> FALSE

(***************************************************************************)
(* Errors thrown inside the interpreter: msg is the message template, info *)
(* its interpolated values.  The empty msg means that nothing was thrown.  *)
(***************************************************************************)
NoErr == [msg |-> "", info |-> <<>>]
Err(m, i) == [msg |-> m, info |-> i]
ReturnSignal == Err("RETURN", <<>>)
\* not an exception: the evaluation never returns (an endless synchronous loop)
Hang == Err("<never returns>", <<>>)

\* const x = e; body(x): e is evaluated once, and its value v is what body sees
Bind(e, body(_)) == CHOOSE r \in {body(v) : v \in {e}} : TRUE

(***************************************************************************)
(* Strings are sequences of one-character strings.                         *)
(***************************************************************************)
Digits == <<"0", "1", "2", "3", "4", "5", "6", "7", "8", "9">>
UpperCase == <<"A", "B", "C", "D", "E", "F", "G", "H", "I", "J", "K", "L", "M",
               "N", "O", "P", "Q", "R", "S", "T", "U", "V", "W", "X", "Y", "Z">>
LowerCase == <<"a", "b", "c", "d", "e", "f", "g", "h", "i", "j", "k", "l", "m",
               "n", "o", "p", "q", "r", "s", "t", "u", "v", "w", "x", "y", "z">>

IsDigit(c) == \E i \in 1..10 : Digits[i] = c
DigitVal(c) == (CHOOSE i \in 1..10 : Digits[i] = c) - 1

\* String.prototype.toLowerCase, character by character
LowerChar(c) ==
    IF \E i \in 1..26 : UpperCase[i] = c
    THEN LowerCase[CHOOSE i \in 1..26 : UpperCase[i] = c]
    ELSE c
toLowerCase(chars) == [i \in 1..Len(chars) |-> LowerChar(chars[i])]

\* the longest prefix of chars made of digits
RECURSIVE DigitPrefix(_)
DigitPrefix(chars) ==
    IF chars # <<>> /\ IsDigit(Head(chars))
    THEN <<Head(chars)>> \o DigitPrefix(Tail(chars))
    ELSE <<>>

RECURSIVE DigitsToInt(_)
DigitsToInt(ds) ==
    IF ds = <<>> THEN 0
    ELSE 10 * DigitsToInt(SubSeq(ds, 1, Len(ds) - 1)) + DigitVal(ds[Len(ds)])

RECURSIVE SkipSpaces(_)
SkipSpaces(chars) ==
    IF chars # <<>> /\ Head(chars) = " " THEN SkipSpaces(Tail(chars)) ELSE chars

RECURSIVE StripZeros(_)
StripZeros(ds) ==
    IF ds # <<>> /\ ds[Len(ds)] = "0" THEN StripZeros(SubSeq(ds, 1, Len(ds) - 1)) ELSE ds

Drop(chars, k) == SubSeq(chars, k + 1, Len(chars))

\* [+-] at the head of chars
SignLen(chars) == IF chars # <<>> /\ Head(chars) \in {"-", "+"} THEN 1 ELSE 0
\* the digits of a fraction part .digits at the head of chars, <<>> without one
FractionDigits(chars) ==
    IF chars # <<>> /\ Head(chars) = "." THEN DigitPrefix(Tail(chars)) ELSE <<>>
\* the number with sign neg, integer digits ip and fraction digits fp0
NumberOf(neg, ip, fp0) ==
    IF ip = <<>> /\ fp0 = <<>> THEN NaNV
    ELSE IF StripZeros(fp0) = <<>> THEN NumV(IF neg THEN 0 - DigitsToInt(ip) ELSE DigitsToInt(ip))
    ELSE FracV(IF neg THEN 0 - DigitsToInt(ip) ELSE DigitsToInt(ip),
               <<IF neg THEN "-" ELSE "+">> \o StripZeros(fp0))

\* parseFloat on a string without exponent part: leading blanks are skipped, then
\* the longest prefix [+-]digits[.digits] is read and the rest is ignored; NaN when
\* that prefix holds no digit.
parseFloat(chars) ==
    Bind(SkipSpaces(chars), LAMBDA t0 :
    Bind(Drop(t0, SignLen(t0)), LAMBDA t1 :
    Bind(DigitPrefix(t1), LAMBDA ip :
        NumberOf(t0 # <<>> /\ Head(t0) = "-", ip, FractionDigits(Drop(t1, Len(ip)))))))

\* how many characters of chars parseFloat reads, leading blanks not counted
NumberLen(t0) ==
    Bind(Len(DigitPrefix(Drop(t0, SignLen(t0)))), LAMBDA ipLen :
    Bind(Drop(t0, SignLen(t0) + ipLen), LAMBDA rest :
        SignLen(t0) + ipLen
        + (IF rest # <<>> /\ Head(rest) = "." THEN 1 + Len(FractionDigits(rest)) ELSE 0)))

\* Number.prototype.toString for an integer
RECURSIVE NatToChars(_)
NatToChars(i) ==
    IF i < 10 THEN <<Digits[i + 1]>>
    ELSE NatToChars(i \div 10) \o <<Digits[(i % 10) + 1]>>
IntToChars(i) == IF i < 0 THEN <<"-">> \o NatToChars(0 - i) ELSE NatToChars(i)

RECURSIVE Join(_, _)
\* Array.prototype.join
Join(parts, sep) ==
    IF parts = <<>> THEN <<>>
    ELSE IF Len(parts) = 1 THEN parts[1]
    ELSE parts[1] \o sep \o Join(Tail(parts), sep)

(***************************************************************************)
(* The AST (types.ts), as the parser builds it.  A block is the sequence   *)
(* of its statements.  Callable names are character sequences, because the *)
(* function table lower-cases them; variable names are plain strings.      *)
(***************************************************************************)
Lit(v) == [kind |-> "Literal", value |-> v]
Num(i) == Lit(NumV(i))
Id(name) == [kind |-> "Identifier", name |-> name]
Acc(name, indexes) == [kind |-> "ArrayAccess", name |-> name, indexes |-> indexes]
Bin(l, op, r) == [kind |-> "BinaryOp", left |-> l, operator |-> op, right |-> r]
Un(op, e) == [kind |-> "UnaryOp", operator |-> op, operand |-> e]
CallNode(name, args, line) == [kind |-> "Call", name |-> name, args |-> args, line |-> line]

WriteStmt(args, line) == [kind |-> "IO", type |-> "Write", args |-> args, line |-> line]
ReadStmt(args, line) == [kind |-> "IO", type |-> "Read", args |-> args, line |-> line]
\* target is the name (typeof stmt.target === 'string') or an ArrayAccess node
Name(name) == [kind |-> "Name", name |-> name]
Assign(target, value, line) ==
    [kind |-> "Assignment", target |-> target, value |-> value, line |-> line]
IfStmt(c, th, line) ==
    [kind |-> "If", condition |-> c, thenBranch |-> th, hasElse |-> FALSE,
     elseBranch |-> <<>>, line |-> line]
IfElse(c, th, el, line) ==
    [kind |-> "If", condition |-> c, thenBranch |-> th, hasElse |-> TRUE,
     elseBranch |-> el, line |-> line]
WhileStmt(c, body, line) == [kind |-> "While", condition |-> c, body |-> body, line |-> line]
ForStmt(v, from, to, body, line) ==
    [kind |-> "For", variable |-> v, start |-> from, end |-> to, hasStep |-> FALSE,
     step |-> Num(1), body |-> body, line |-> line]
ForStep(v, from, to, st, body, line) ==
    [kind |-> "For", variable |-> v, start |-> from, end |-> to, hasStep |-> TRUE,
     step |-> st, body |-> body, line |-> line]
ReturnStmt(e, line) == [kind |-> "Return", value |-> e, line |-> line]

VarDecl(names, varType, dimensions) ==
    [names |-> names, varType |-> varType, dimensions |-> dimensions]
Param(name, type) == [name |-> name, type |-> type]
FunctionDecl(name, params, variables, body) ==
    [kind |-> "FunctionDecl", name |-> name, params |-> params,
     variables |-> variables, body |-> body]
ProcedureDecl(name, params, variables, body) ==
    [kind |-> "ProcedureDecl", name |-> name, params |-> params,
     variables |-> variables, body |-> body]
Program(variables, funcs, body, line) ==
    [kind |-> "Program", variables |-> variables, functions |-> funcs,
     body |-> body, line |-> line]

\* type words as written in the source
TInteger == <<"I", "n", "t", "e", "g", "e", "r">>
TReal == <<"R", "e", "a", "l">>
TBoolean == <<"B", "o", "o", "l", "e", "a", "n">>
TString == <<"S", "t", "r", "i", "n", "g">>
TChar == <<"C", "h", "a", "r">>

normalizeType(typeStr) ==
    LET t == toLowerCase(typeStr)
    IN  IF t = toLowerCase(TInteger) \/ t = toLowerCase(TReal) THEN "Real"
        ELSE IF t = toLowerCase(TBoolean) THEN "Boolean"
        ELSE IF t = toLowerCase(TString) THEN "String"
        ELSE "Real"

defaultValue(typeStr) ==
    LET t == toLowerCase(typeStr)
    IN  IF t = toLowerCase(TInteger) \/ t = toLowerCase(TReal) THEN NumV(0)
        ELSE IF t = toLowerCase(TBoolean) THEN BoolV(FALSE)
        ELSE IF t = toLowerCase(TString) THEN StrV(<<>>)
        ELSE NumV(0)

(***************************************************************************)
(* RuntimeValue cells, scopes, and the heap of objects.  An array object   *)
(* at address a is its element sequence heap[a]: element i of the          *)
(* JavaScript array is heap[a][i + 1].  A RuntimeValue object (a cell) at  *)
(* address c is the record heap[c].  Objects are shared by reference: a    *)
(* value RefV(a) names an array object, and a scope's Map holds the        *)
(* addresses of its cells.                                                 *)
(***************************************************************************)
Cell(type, value) == [type |-> type, value |-> value, arrayType |-> <<>>, dims |-> <<>>]
ArrayCell(value, arrayType, dims) ==
    [type |-> "Array", value |-> value, arrayType |-> arrayType, dims |-> dims]

EmptyMap == [x \in {} |-> 0]
NewScope == [variables |-> EmptyMap, returnVal |-> UndefV]
\* Map.prototype.set
MapSet(map, key, val) == (key :> val) @@ map

RECURSIVE createArray(_, _, _)
RECURSIVE fillArray(_, _, _, _)
\* the loop of createArray: the elements k .. size-1 still to be created
fillArray(h, todo, rest, type) ==
    IF todo = 0 THEN [heap |-> h, elems |-> <<>>]
    ELSE LET one == createArray(h, rest, type)
             more == fillArray(one.heap, todo - 1, rest, type)
         IN  [heap |-> more.heap, elems |-> <<one.val>> \o more.elems]
createArray(h, dims, type) ==
    IF dims = <<>> THEN [heap |-> h, val |-> defaultValue(type)]
    ELSE LET addr == Len(h) + 1
             filled == fillArray(Append(h, <<>>), Head(dims), Tail(dims), type)
         IN  [heap |-> [filled.heap EXCEPT ![addr] = filled.elems], val |-> RefV(addr)]

\* the (decl, name) pairs of a declaration list, in source order
RECURSIVE DeclNames(_)
DeclNames(decls) ==
    IF decls = <<>> THEN <<>>
    ELSE [i \in 1..Len(Head(decls).names) |-> <<Head(decls), Head(decls).names[i]>>]
         \o DeclNames(Tail(decls))

\* scope.variables.set(name, <a new RuntimeValue object>)
SetNew(h, scope, name, cell) ==
    [heap |-> Append(h, cell),
     scope |-> [scope EXCEPT !.variables = MapSet(@, name, Len(h) + 1)]]

RECURSIVE initializeNames(_, _, _)
initializeNames(h, scope, pairs) ==
    IF pairs = <<>> THEN [heap |-> h, scope |-> scope]
    ELSE LET decl == Head(pairs)[1]
             name == Head(pairs)[2]
             made == createArray(h, decl.dimensions, decl.varType)
             set == IF Len(decl.dimensions) > 0
                    THEN SetNew(made.heap, scope, name,
                                ArrayCell(made.val, decl.varType, decl.dimensions))
                    ELSE SetNew(h, scope, name,
                                Cell(normalizeType(decl.varType), defaultValue(decl.varType)))
         IN  initializeNames(set.heap, set.scope, Tail(pairs))
initializeVariables(h, decls, scope) == initializeNames(h, scope, DeclNames(decls))

\* the topmost scope holding name: [found, at (index in the call stack), ref (the
\* address of the cell)]
RECURSIVE lookupFrom(_, _, _)
lookupFrom(cs, i, name) ==
    IF i < 1 THEN [found |-> FALSE, at |-> 0, ref |-> 0]
    ELSE IF name \in DOMAIN cs[i].variables
    THEN [found |-> TRUE, at |-> i, ref |-> cs[i].variables[name]]
    ELSE lookupFrom(cs, i - 1, name)
\* a search that starts at the global scope and goes up
RECURSIVE lookupUpFrom(_, _, _)
lookupUpFrom(cs, i, name) ==
    IF i > Len(cs) THEN [found |-> FALSE, at |-> 0, ref |-> 0]
    ELSE IF name \in DOMAIN cs[i].variables
    THEN [found |-> TRUE, at |-> i, ref |-> cs[i].variables[name]]
    ELSE lookupUpFrom(cs, i + 1, name)
getVariableGlobalFirst(cs, name) == lookupUpFrom(cs, 1, name)
getVariable(cs, name) == lookupFrom(cs, Len(cs), name)
NotDeclared(name) == Err("Variable '${name}' not declared.", <<name>>)

\* variable.value = val on the cell at address ref
SetCellValue(h, ref, val) == [h EXCEPT ![ref].value = val]

(***************************************************************************)
(* JavaScript operators on runtime values.  Numbers of the model are the   *)
(* integers; a non-integral result is kept as an opaque FracV.             *)
(***************************************************************************)
Abs(i) == IF i < 0 THEN 0 - i ELSE i
\* Math.floor(l / r) on integers, r # 0
FloorDiv(l, r) ==
    IF r > 0 THEN l \div r ELSE (0 - l) \div (0 - r)
\* l % r of JavaScript on integers, r # 0: the remainder has the sign of l
JsRem(l, r) ==
    IF l >= 0 THEN l % Abs(r) ELSE 0 - ((0 - l) % Abs(r))

\* Number(v): a string must be a number from end to end, blanks around it allowed,
\* and the empty string is 0
ToNumber(v) ==
    CASE v.t = "num" -> v
      [] v.t = "bool" -> NumV(v.n)
      [] v.t = "null" -> NumV(0)
      [] v.t = "str" ->
            Bind(SkipSpaces(v.s), LAMBDA body :
                IF body = <<>> THEN NumV(0)
                ELSE IF SkipSpaces(Drop(body, NumberLen(body))) = <<>> THEN parseFloat(body)
                ELSE NaNV)
      [] OTHER -> NaNV

RECURSIVE ToStr(_, _)
\* String(v); an array is its elements joined by commas
ToStr(h, v) ==
    CASE v.t = "num" -> IF v.s = <<>> THEN IntToChars(v.n) ELSE IntToChars(v.n) \o <<".">> \o Tail(v.s)
      [] v.t = "bool" -> IF v.n = 1 THEN <<"t", "r", "u", "e">> ELSE <<"f", "a", "l", "s", "e">>
      [] v.t = "str" -> v.s
      [] v.t = "null" -> <<"n", "u", "l", "l">>
      [] v.t = "undef" -> <<"u", "n", "d", "e", "f", "i", "n", "e", "d">>
      [] v.t = "nan" -> <<"N", "a", "N">>
      [] v.t = "ref" ->
            Join([i \in 1..Len(h[v.n]) |->
                     IF h[v.n][i].t \in {"null", "undef"} THEN <<>> ELSE ToStr(h, h[v.n][i])],
                 <<",">>)
      [] OTHER ->
            Join([i \in 1..Len(v.a) |->
                     IF v.a[i].t \in {"null", "undef"} THEN <<>> ELSE ToStr(h, v.a[i])],
                 <<",">>)

\* l === r
StrictEq(l, r) == l.t # "nan" /\ l = r

\* l < r on numbers (after Number())
NumLess(l, r) ==
    Bind(ToNumber(l), LAMBDA x : Bind(ToNumber(r), LAMBDA y :
        IsInt(x) /\ IsInt(y) /\ x.n < y.n))

Arith(op, l, r) ==
    Bind(ToNumber(l), LAMBDA x : Bind(ToNumber(r), LAMBDA y :
        IF x.t = "nan" \/ y.t = "nan" THEN NaNV
        ELSE IF ~(IsInt(x) /\ IsInt(y)) THEN FracV(0, <<"?">>)
        ELSE CASE op = "MINUS" -> NumV(x.n - y.n)
               [] op = "MULTIPLY" -> NumV(x.n * y.n)
               [] op = "PLUS" -> NumV(x.n + y.n)
               [] op = "DIVIDE" ->
                     IF y.n = 0 THEN (IF x.n = 0 THEN NaNV ELSE FracV(0, <<"Infinity">>))
                     ELSE IF JsRem(x.n, y.n) = 0 THEN NumV(FloorDiv(x.n, y.n))
                     ELSE FracV(FloorDiv(x.n, y.n), <<"?">>)
               [] op = "DIV" ->
                     IF y.n = 0 THEN (IF x.n = 0 THEN NaNV ELSE FracV(0, <<"Infinity">>))
                     ELSE NumV(FloorDiv(x.n, y.n))
               [] op = "MOD" ->
                     IF y.n = 0 THEN NaNV ELSE NumV(JsRem(x.n, y.n))))

\* l + r: concatenation when an operand is a string or an array, else addition
JsPlus(h, l, r) ==
    IF l.t \in {"str", "ref", "arr"} \/ r.t \in {"str", "ref", "arr"}
    THEN StrV(ToStr(h, l) \o ToStr(h, r))
    ELSE Arith("PLUS", l, r)

BinaryOperators ==
    {"PLUS", "MINUS", "MULTIPLY", "DIVIDE", "DIV", "MOD", "EQUAL", "NOT_EQUAL", "LESS",
     "LESS_EQUAL", "GREATER", "GREATER_EQUAL", "AND", "OR"}

\* the switch of evaluate's BinaryOp case, on evaluated operands
applyBinary(h, op, l, r) ==
    CASE op = "PLUS" -> JsPlus(h, l, r)
      [] op \in {"MINUS", "MULTIPLY", "DIVIDE", "DIV", "MOD"} -> Arith(op, l, r)
      [] op = "EQUAL" -> BoolV(StrictEq(l, r))
      [] op = "NOT_EQUAL" -> BoolV(~StrictEq(l, r))
      [] op = "LESS" -> BoolV(NumLess(l, r))
      [] op = "LESS_EQUAL" ->
            BoolV(NumLess(l, r) \/ (IsInt(ToNumber(l)) /\ ToNumber(l) = ToNumber(r)))
      [] op = "GREATER" -> BoolV(NumLess(r, l))
      [] op = "GREATER_EQUAL" ->
            BoolV(NumLess(r, l) \/ (IsInt(ToNumber(l)) /\ ToNumber(l) = ToNumber(r)))
      [] op = "AND" -> IF Truthy(l) THEN r ELSE l
      [] op = "OR" -> IF Truthy(l) THEN l ELSE r

applyUnary(op, v) ==
    IF op = "MINUS"
    THEN Bind(ToNumber(v), LAMBDA x : IF IsInt(x) THEN NumV(0 - x.n) ELSE x)
    ELSE IF op = "NOT" THEN BoolV(~Truthy(v))
    ELSE v

(***************************************************************************)
(* Array element access.                                                   *)
(***************************************************************************)
\* idx < 0 || idx > current.length
OutOfRangeAbove(idx, len) ==
    Bind(ToNumber(idx), LAMBDA x :
        x.t = "num" /\ (x.n < 0 \/ x.n > len \/ (x.s # <<>> /\ Head(x.s) = "-")))

\* idx < 0 || idx >= current.length
OutOfRange(idx, len) ==
    Bind(ToNumber(idx), LAMBDA x :
        x.t = "num" /\ (x.n < 0 \/ x.n >= len \/ (x.s # <<>> /\ Head(x.s) = "-")))
IndexError(idx) == Err("Index ${idx} out of bounds.", <<idx>>)

\* current[idx]: an element for an integer index, else a property that is not there
ElementAt(h, cur, idx) ==
    IF IsInt(idx) /\ idx.n >= 0 /\ idx.n < Len(h[cur.n]) THEN h[cur.n][idx.n + 1] ELSE UndefV

RECURSIVE getArrayValue(_, _, _)
\* [val, err]
getArrayValue(h, current, indexes) ==
    IF indexes = <<>> THEN [val |-> current, err |-> NoErr]
    ELSE LET idx == Head(indexes)
         IN  IF ~IsArray(current) \/ OutOfRange(idx, Len(h[current.n]))
             THEN [val |-> UndefV, err |-> IndexError(idx)]
             ELSE getArrayValue(h, ElementAt(h, current, idx), Tail(indexes))

RECURSIVE setArrayValue(_, _, _, _)
\* [heap, err]; with no index at all lastIdx is undefined and only a property is set
setArrayValue(h, current, indexes, value) ==
    IF Len(indexes) <= 1
    THEN LET lastIdx == IF indexes = <<>> THEN UndefV ELSE indexes[1]
         IN  IF ~IsArray(current) \/ OutOfRange(lastIdx, Len(h[current.n]))
             THEN [heap |-> h, err |-> IndexError(lastIdx)]
             ELSE IF IsInt(lastIdx)
             THEN [heap |-> [h EXCEPT ![current.n][lastIdx.n + 1] = value], err |-> NoErr]
             ELSE [heap |-> h, err |-> NoErr]
    ELSE LET idx == Head(indexes)
         IN  IF ~IsArray(current) \/ OutOfRange(idx, Len(h[current.n]))
             THEN [heap |-> h, err |-> IndexError(idx)]
             ELSE setArrayValue(h, ElementAt(h, current, idx), Tail(indexes), value)

(***************************************************************************)
(* Expression evaluation and the synchronous executor.  They run inside    *)
(* one call of next(), so they are operators on the interpreter state      *)
(*   st = [cs: the call stack, heap, fns: the function table, fuel]        *)
(* giving [st, val, err].  fuel counts the statements and loop tests the   *)
(* synchronous executor may still run; at 0 the evaluation is taken never  *)
(* to return (err = Hang).                                                 *)
(***************************************************************************)
Ok(st, v) == [st |-> st, val |-> v, err |-> NoErr]
Fail(st, e) == [st |-> st, val |-> UndefV, err |-> e]
Failed(r) == r.err.msg # ""

NotArray(name) == Err("'${name}' is not an array.", <<name>>)
UnknownFunction(name) == Err("Unknown function '${name}'.", <<name>>)

\* the value bound to parameter i: evaluatedArgs[i], undefined past the end
ArgOrUndefined(evaluatedArgs, i) ==
    IF i <= Len(evaluatedArgs) THEN evaluatedArgs[i] ELSE UndefV

RECURSIVE bindParams(_, _, _, _, _)
\* the Bind Args loop of executeCall / executeFunctionSync: [heap, scope]
bindParams(h, scope, params, evaluatedArgs, i) ==
    IF i > Len(params) THEN [heap |-> h, scope |-> scope]
    ELSE LET set == SetNew(h, scope, params[i].name,
                           Cell(normalizeType(params[i].type),
                                ArgOrUndefined(evaluatedArgs, i)))
         IN  bindParams(set.heap, set.scope, params, evaluatedArgs, i + 1)

\* Every call among the mutually recursive operators below goes through interp, the
\* one operator declared recursive: interp(task) runs the operator task.op names.
RECURSIVE interp(_)
Ev(st, node) == interp([op |-> "evaluate", st |-> st, node |-> node])
EvAll(st, nodes) == interp([op |-> "evaluateAll", st |-> st, node |-> nodes])
CallFn(st, node) == interp([op |-> "executeFunctionSync", st |-> st, node |-> node])
RunBlock(st, stmts) == interp([op |-> "runBlockSync", st |-> st, node |-> stmts])
RunStmt(st, stmt) == interp([op |-> "runStatementSync", st |-> st, node |-> stmt])
RunWhile(st, stmt) == interp([op |-> "whileSync", st |-> st, node |-> stmt])
RunFor(st, stmt, loopVar, end, step) ==
    interp([op |-> "forSync", st |-> st, node |-> stmt, loopVar |-> loopVar,
            end |-> end, step |-> step])

\* nodes.map(n => this.evaluate(n)): [st, vals, err]
evaluateAll(st, nodes) ==
    IF nodes = <<>> THEN [st |-> st, vals |-> <<>>, err |-> NoErr]
    ELSE Bind(Ev(st, Head(nodes)), LAMBDA one :
            IF Failed(one) THEN [st |-> one.st, vals |-> <<>>, err |-> one.err]
            ELSE Bind(EvAll(one.st, Tail(nodes)), LAMBDA more :
                    [st |-> more.st, vals |-> <<one.val>> \o more.vals, err |-> more.err]))

evaluate(st, node) ==
    CASE node.kind = "Literal" -> Ok(st, node.value)
      [] node.kind = "Identifier" ->
            Bind(getVariable(st.cs, node.name), LAMBDA v :
                IF v.found THEN Ok(st, st.heap[v.ref].value)
                ELSE Fail(st, NotDeclared(node.name)))
      [] node.kind = "ArrayAccess" ->
            Bind(getVariable(st.cs, node.name), LAMBDA arrVar :
                IF ~arrVar.found THEN Fail(st, NotDeclared(node.name))
                ELSE IF st.heap[arrVar.ref].type # "Array" THEN Fail(st, NotArray(node.name))
                ELSE Bind(EvAll(st, node.indexes), LAMBDA idx :
                        IF Failed(idx) THEN Fail(idx.st, idx.err)
                        ELSE Bind(getArrayValue(idx.st.heap, idx.st.heap[arrVar.ref].value,
                                                idx.vals),
                                  LAMBDA got : IF got.err.msg # "" THEN Fail(idx.st, got.err)
                                               ELSE Ok(idx.st, got.val))))
      [] node.kind = "Call" -> CallFn(st, node)
      [] node.kind = "BinaryOp" ->
            Bind(Ev(st, node.left), LAMBDA l :
                IF Failed(l) THEN l
                ELSE Bind(Ev(l.st, node.right), LAMBDA r :
                        IF Failed(r) THEN r
                        ELSE IF node.operator \in BinaryOperators
                        THEN Ok(r.st, applyBinary(r.st.heap, node.operator, l.val, r.val))
                        ELSE Fail(r.st, Err("Unknown operator", <<>>))))
      [] node.kind = "UnaryOp" ->
            Bind(Ev(st, node.operand), LAMBDA v :
                IF Failed(v) THEN v ELSE Ok(v.st, applyUnary(node.operator, v.val)))
      [] OTHER -> Ok(st, NullV)

\* this.callStack.pop()
PopScope(st) == [st EXCEPT !.cs = SubSeq(@, 1, Len(@) - 1)]
TopScope(st) == st.cs[Len(st.cs)]

executeFunctionSync(st, node) ==
    LET name == toLowerCase(node.name)
    IN  IF name \notin DOMAIN st.fns THEN Fail(st, UnknownFunction(node.name))
        ELSE
        Bind(EvAll(st, node.args), LAMBDA args :
            IF Failed(args) THEN Fail(args.st, args.err)
            ELSE
            Bind(bindParams(args.st.heap, NewScope, st.fns[name].params, args.vals, 1),
                 LAMBDA bound :
            Bind(initializeVariables(bound.heap, st.fns[name].variables, bound.scope),
                 LAMBDA init :
            Bind(RunBlock([args.st EXCEPT !.heap = init.heap,
                                          !.cs = Append(args.st.cs, init.scope)],
                          st.fns[name].body),
                 LAMBDA ran :
                IF ran.err.msg = Hang.msg THEN Fail(ran.st, Hang)
                ELSE IF Failed(ran) /\ ran.err.msg # "RETURN"
                THEN Fail(PopScope(ran.st), ran.err)
                ELSE Ok(PopScope(ran.st), TopScope(ran.st).returnVal)))))

\* runBlockSync leaving the block at its first Read or Write
runBlockSyncUntilIO(st, stmts) ==
    IF stmts = <<>> \/ Head(stmts).kind = "IO" THEN Ok(st, UndefV)
    ELSE Bind(RunStmt(st, Head(stmts)), LAMBDA one :
            IF Failed(one) THEN one ELSE RunBlock(one.st, Tail(stmts)))

runBlockSync(st, stmts) ==
    IF stmts = <<>> THEN Ok(st, UndefV)
    ELSE Bind(RunStmt(st, Head(stmts)), LAMBDA one :
            IF Failed(one) THEN one ELSE RunBlock(one.st, Tail(stmts)))

\* loopVar.value += step, on the cell captured at loop entry
AddStep(h, loopVar, step) == SetCellValue(h, loopVar, JsPlus(h, h[loopVar].value, step))

\* an exit test that also leaves the loop when current has reached end
ForExitsAtEnd(current, end, step) ==
    \/ (NumLess(step, NumV(0)) = FALSE /\ IsInt(ToNumber(step)) /\ ~NumLess(current, end))
    \/ (NumLess(step, NumV(0)) /\ ~NumLess(end, current))

\* the exit test of a For loop: current > end for step >= 0, current < end for step < 0
ForExits(current, end, step) ==
    \/ (NumLess(step, NumV(0)) = FALSE /\ IsInt(ToNumber(step)) /\ NumLess(end, current))
    \/ (NumLess(step, NumV(0)) /\ NumLess(current, end))

whileSync(st, stmt) ==
    IF st.fuel = 0 THEN Fail(st, Hang)
    ELSE Bind(Ev([st EXCEPT !.fuel = @ - 1], stmt.condition), LAMBDA c :
            IF Failed(c) THEN c
            ELSE IF ~Truthy(c.val) THEN Ok(c.st, UndefV)
            ELSE Bind(RunBlock(c.st, stmt.body), LAMBDA b :
                    IF Failed(b) THEN b ELSE RunWhile(b.st, stmt)))

forSync(st, stmt, loopVar, end, step) ==
    IF st.fuel = 0 THEN Fail(st, Hang)
    ELSE IF ForExits(st.heap[loopVar].value, end, step) THEN Ok(st, UndefV)
    ELSE Bind(RunBlock([st EXCEPT !.fuel = @ - 1], stmt.body), LAMBDA b :
            IF Failed(b) THEN b
            ELSE RunFor([b.st EXCEPT !.heap = AddStep(@, loopVar, step)],
                        stmt, loopVar, end, step))

\* the For case of runStatementSync once start, end and step are evaluated
forEnterSync(stmt, start, end, step) ==
    Bind(getVariable(step.st.cs, stmt.variable), LAMBDA loopVar :
        IF ~loopVar.found THEN Fail(step.st, NotDeclared(stmt.variable))
        ELSE RunFor([step.st EXCEPT !.heap = SetCellValue(@, loopVar.ref, start.val)],
                    stmt, loopVar.ref, end.val, step.val))

\* an Assignment case that stores into named variables only
assignSyncNamesOnly(stmt, v) ==
    Bind(getVariable(v.st.cs, stmt.target.name), LAMBDA var :
        IF ~var.found THEN Fail(v.st, NotDeclared(stmt.target.name))
        ELSE IF stmt.target.kind = "Name"
        THEN Ok([v.st EXCEPT !.heap = SetCellValue(@, var.ref, v.val)], UndefV)
        ELSE Ok(v.st, UndefV))

\* the Assignment case of runStatementSync once the value v is evaluated
assignSync(stmt, v) ==
    Bind(getVariable(v.st.cs, stmt.target.name), LAMBDA var :
        IF ~var.found THEN Fail(v.st, NotDeclared(stmt.target.name))
        ELSE IF stmt.target.kind = "Name"
        THEN Ok([v.st EXCEPT !.heap = SetCellValue(@, var.ref, v.val)], UndefV)
        ELSE Bind(EvAll(v.st, stmt.target.indexes), LAMBDA idxs :
                IF Failed(idxs) THEN Fail(idxs.st, idxs.err)
                ELSE Bind(setArrayValue(idxs.st.heap, idxs.st.heap[var.ref].value,
                                        idxs.vals, v.val),
                          LAMBDA set : IF set.err.msg # "" THEN Fail(idxs.st, set.err)
                                       ELSE Ok([idxs.st EXCEPT !.heap = set.heap], UndefV))))

runStatementSync(st0, stmt) ==
    IF st0.fuel = 0 THEN Fail(st0, Hang)
    ELSE
    Bind([st0 EXCEPT !.fuel = @ - 1], LAMBDA st :
    CASE stmt.kind = "Return" ->
            Bind(Ev(st, stmt.value), LAMBDA v :
                IF Failed(v) THEN v
                ELSE Fail([v.st EXCEPT !.cs[Len(v.st.cs)].returnVal = v.val], ReturnSignal))
      [] stmt.kind = "If" ->
            Bind(Ev(st, stmt.condition), LAMBDA c :
                IF Failed(c) THEN c
                ELSE IF Truthy(c.val) THEN RunBlock(c.st, stmt.thenBranch)
                ELSE IF stmt.hasElse THEN RunBlock(c.st, stmt.elseBranch)
                ELSE Ok(c.st, UndefV))
      [] stmt.kind = "While" -> RunWhile(st, stmt)
      [] stmt.kind = "For" ->
            Bind(Ev(st, stmt.start), LAMBDA start :
                IF Failed(start) THEN start
                ELSE
                Bind(Ev(start.st, stmt.end), LAMBDA end :
                    IF Failed(end) THEN end
                    ELSE
                    Bind(IF stmt.hasStep THEN Ev(end.st, stmt.step) ELSE Ok(end.st, NumV(1)),
                         LAMBDA step :
                        IF Failed(step) THEN step
                        ELSE forEnterSync(stmt, start, end, step))))
      [] stmt.kind = "Assignment" ->
            Bind(Ev(st, stmt.value), LAMBDA v :
                IF Failed(v) THEN v ELSE assignSync(stmt, v))
      [] stmt.kind = "Call" ->
            Bind(CallFn(st, stmt), LAMBDA r :
                IF Failed(r) THEN r ELSE Ok(r.st, UndefV))
      \* IO ignored in sync mode for functions in expressions
      [] OTHER -> Ok(st, UndefV))

interp(task) ==
    CASE task.op = "evaluate" -> evaluate(task.st, task.node)
      [] task.op = "evaluateAll" -> evaluateAll(task.st, task.node)
      [] task.op = "executeFunctionSync" -> executeFunctionSync(task.st, task.node)
      [] task.op = "runBlockSync" -> runBlockSync(task.st, task.node)
      [] task.op = "runStatementSync" -> runStatementSync(task.st, task.node)
      [] task.op = "whileSync" -> whileSync(task.st, task.node)
      [] task.op = "forSync" -> forSync(task.st, task.node, task.loopVar, task.end, task.step)

(***************************************************************************)
(* Events and snapshots.                                                   *)
(***************************************************************************)
\* JSON.parse(JSON.stringify(v)): a fresh structure; undefined and NaN become null
RECURSIVE JsonCopy(_, _)
JsonCopy(h, v) ==
    CASE v.t = "ref" -> ArrV([i \in 1..Len(h[v.n]) |-> JsonCopy(h, h[v.n][i])])
      [] v.t = "arr" -> ArrV([i \in 1..Len(v.a) |-> JsonCopy(h, v.a[i])])
      [] v.t \in {"undef", "nan"} -> NullV
      [] OTHER -> v

\* { ...val } or, for an array cell, { ...val, value: <JSON copy> }
SnapshotCell(h, cell) ==
    IF cell.type = "Array" /\ IsArray(cell.value)
    THEN [cell EXCEPT !.value = JsonCopy(h, cell.value)]
    ELSE cell

RECURSIVE mergeScopes(_, _, _)
\* scopes i .. top set into the snapshot, a later scope overriding an earlier one
mergeScopes(h, cs, i) ==
    IF i > Len(cs) THEN EmptyMap
    ELSE mergeScopes(h, cs, i + 1)
         @@ [name \in DOMAIN cs[i].variables |-> SnapshotCell(h, h[cs[i].variables[name]])]
getVariablesSnapshot(h, cs) == mergeScopes(h, cs, 1)

\* what a reader of value v sees, array objects followed through the heap
RECURSIVE View(_, _)
View(h, v) ==
    CASE v.t = "ref" -> ArrV([i \in 1..Len(h[v.n]) |-> View(h, h[v.n][i])])
      [] v.t = "arr" -> ArrV([i \in 1..Len(v.a) |-> View(h, v.a[i])])
      [] OTHER -> v

\* seen records what the snapshot showed when the event was emitted
StepEvent(h, cs, line) ==
    LET snap == getVariablesSnapshot(h, cs)
    IN  [type |-> "step", line |-> line, variables |-> snap,
         seen |-> [name \in DOMAIN snap |-> View(h, snap[name].value)]]
OutputEvent(text) == [type |-> "output", value |-> text]
InputEvent(varName, varType) == [type |-> "input", varName |-> varName, varType |-> varType]
\* value: `Runtime Error: ${e.message}`
ErrorEvent(e) == [type |-> "error", prefix |-> "Runtime Error: ", value |-> e]

\* the text of one Write argument before join(' ')
formatArg(h, v) ==
    IF v.t \in {"null", "undef"} THEN <<>> ELSE ToStr(h, v)
writeText(h, vals) == Join([i \in 1..Len(vals) |-> formatArg(h, vals[i])], <<" ">>)

(***************************************************************************)
(* The generator.  A machine m is one handle together with the interpreter *)
(* object it runs on:                                                      *)
(*   prog    the AST given to execute                                      *)
(*   cs, heap, fns   this.callStack, the object heap, this.functions       *)
(*   ctl     the stack of suspended generator frames, innermost last       *)
(*   status  "suspendedStart", "suspendedYield", "executing", "closed",    *)
(*           or "hung" (executing, in an evaluation that never returns)    *)
(*   sent    the argument of the next() being served                       *)
(*   result  what the latest next() returned: "value" (an event), "done",  *)
(*           "pending" while it runs, "none" before the first              *)
(*   events  the events yielded so far                                     *)
(*   execs   how many times executeStatement went past its Step yield      *)
(* Frames: execute (pc start, started, body, caught), block (executeBlock  *)
(* at statement i), stmt (executeStatement at pc), call (executeCall       *)
(* inside its try).                                                        *)
(***************************************************************************)
ExecuteFrame(pc) == [k |-> "execute", pc |-> pc]
BlockFrame(stmts) == [k |-> "block", stmts |-> stmts, i |-> 1]
StmtFrame(node) ==
    [k |-> "stmt", node |-> node, pc |-> "step", arg |-> 1, target |-> 0,
     indexes |-> <<>>, typeToMatch |-> "", end |-> UndefV, step |-> UndefV]
CallFrame == [k |-> "call", pc |-> "body"]

Top(m) == m.ctl[Len(m.ctl)]
PopFrame(m) == [m EXCEPT !.ctl = SubSeq(@, 1, Len(@) - 1)]
SetTop(m, f) == [m EXCEPT !.ctl[Len(m.ctl)] = f]
Push(m, f) == [m EXCEPT !.ctl = Append(@, f)]
\* yield ev: the generator suspends and next() returns { value: ev, done: false };
\* the value sent with that next() is gone
Yield(m, ev) ==
    [m EXCEPT !.events = Append(@, ev), !.status = "suspendedYield",
              !.result = "value", !.sent = UndefV]
\* the generator function returns: next() returns { done: true }
Close(m) == [m EXCEPT !.ctl = <<>>, !.status = "closed", !.result = "done", !.sent = UndefV]

StateOf(m) == [cs |-> m.cs, heap |-> m.heap, fns |-> m.fns, fuel |-> MaxSyncSteps]
WithState(m, st) == [m EXCEPT !.cs = st.cs, !.heap = st.heap]

\* the frames of executeCall on the generator stack
CallFrames(ctl) == {j \in 1..Len(ctl) : ctl[j].k = "call"}
Highest(S) == CHOOSE j \in S : \A k \in S : k <= j

\* throw e caught around the statement instead: the error is reported, the statement
\* is given up and its block goes on
ThrowResuming(m, e) ==
    IF e.msg = Hang.msg THEN [m EXCEPT !.status = "hung"]
    ELSE IF e.msg = "RETURN"
    THEN IF CallFrames(m.ctl) = {}
         THEN Close(m)
         ELSE [m EXCEPT !.ctl = SubSeq(@, 1, Highest(CallFrames(m.ctl)))]
    ELSE Yield(PopFrame(m), ErrorEvent(e))

\* throw e with a catch in execute that reports every exception, RETURN included
ThrowReportingAll(m, e) ==
    IF e.msg = Hang.msg THEN [m EXCEPT !.status = "hung"]
    ELSE IF e.msg = "RETURN" /\ CallFrames(m.ctl) # {}
    THEN [m EXCEPT !.ctl = SubSeq(@, 1, Highest(CallFrames(m.ctl)))]
    ELSE Yield([m EXCEPT !.ctl = <<ExecuteFrame("caught")>>], ErrorEvent(e))

\* a RETURN that is caught by the outermost executeCall, whatever the depth of calls
ThrowUnwindingAll(m, e) ==
    IF e.msg = Hang.msg THEN [m EXCEPT !.status = "hung"]
    ELSE IF e.msg = "RETURN"
    THEN IF CallFrames(m.ctl) = {}
         THEN Close(m)
         ELSE [m EXCEPT !.ctl = SubSeq(@, 1, CHOOSE j \in CallFrames(m.ctl) :
                                                \A k \in CallFrames(m.ctl) : j <= k)]
    ELSE Yield([m EXCEPT !.ctl = <<ExecuteFrame("caught")>>], ErrorEvent(e))

\* throw e from the innermost frame.  RETURN is caught by the nearest executeCall,
\* which goes on to pop its scope; anything else is rethrown up to execute, whose
\* catch yields the error event unless the message is RETURN.
Throw(m, e) ==
    IF e.msg = Hang.msg THEN [m EXCEPT !.status = "hung"]
    ELSE IF e.msg = "RETURN"
    THEN IF CallFrames(m.ctl) = {}
         THEN Close(m)
         ELSE [m EXCEPT !.ctl = SubSeq(@, 1, Highest(CallFrames(m.ctl)))]
    ELSE Yield([m EXCEPT !.ctl = <<ExecuteFrame("caught")>>], ErrorEvent(e))

RECURSIVE registerFunctions(_, _)
\* this.functions.set(func.name.toLowerCase(), func), in declaration order
registerFunctions(fns, funcs) ==
    IF funcs = <<>> THEN fns
    ELSE registerFunctions(MapSet(fns, toLowerCase(Head(funcs).name), Head(funcs)),
                           Tail(funcs))

\* execute, from its first line to the program-start yield
executeStart(m) ==
    Bind(initializeVariables(m.heap, m.prog.variables, NewScope), LAMBDA init :
        Yield([m EXCEPT !.cs = <<init.scope>>, !.heap = init.heap,
                        !.fns = registerFunctions(EmptyMap, m.prog.functions),
                        !.ctl = <<ExecuteFrame("started")>>],
              StepEvent(init.heap, <<init.scope>>, m.prog.line)))

\* execute resumed after the program-start yield: yield* this.executeBlock(ast.body)
executeBody(m) == Push(SetTop(m, ExecuteFrame("body")), BlockFrame(m.prog.body))

\* execute after executeBlock returned, or resumed after the yield of its catch
executeEnd(m) == Close(m)

\* executeBlock with the Step of every statement reporting the line of the block's
\* first statement
executeBlockFirstLine(m) ==
    LET f == Top(m)
    IN  IF f.i > Len(f.stmts) THEN PopFrame(m)
        ELSE Yield(Push(SetTop(m, [f EXCEPT !.i = @ + 1]), StmtFrame(f.stmts[f.i])),
                   StepEvent(m.heap, m.cs, f.stmts[1].line))

\* executeBlock: the next statement enters executeStatement, which yields its Step
\* at once; after the last statement the block returns to its caller
executeBlock(m) ==
    LET f == Top(m)
    IN  IF f.i > Len(f.stmts) THEN PopFrame(m)
        ELSE Yield(Push(SetTop(m, [f EXCEPT !.i = @ + 1]), StmtFrame(f.stmts[f.i])),
                   StepEvent(m.heap, m.cs, f.stmts[f.i].line))

\* executeStatement resumed after its Step yield, at the switch
Dispatch(m) == [m EXCEPT !.execs = @ + 1]

executeWrite(m0) ==
    Bind(Dispatch(m0), LAMBDA m :
    Bind(EvAll(StateOf(m), Top(m).node.args), LAMBDA vals :
        IF vals.err.msg # "" THEN Throw(WithState(m, vals.st), vals.err)
        ELSE Yield(SetTop(WithState(m, vals.st), [Top(m) EXCEPT !.pc = "break"]),
                   OutputEvent(writeText(vals.st.heap, vals.vals)))))

\* the Read branch entered: the loop over stmt.args starts
executeRead(m0) ==
    LET m == Dispatch(m0)
    IN  SetTop(m, [Top(m) EXCEPT !.pc = "readarg", !.arg = 1])

\* the type of the target cell as it is reported, without the array case
cellType(cell) == cell.type

\* (targetVar.type === 'Array') ? this.normalizeType(targetVar.arrayType) : targetVar.type
typeToMatch(cell) ==
    IF cell.type = "Array" THEN normalizeType(cell.arrayType) ELSE cell.type

\* the body of the Read loop up to its yield: the target is resolved, its indexes are
\* evaluated and the input request is yielded
requestInput(m) ==
    LET f == Top(m)
        arg == f.node.args[f.arg]
    IN  IF arg.kind \notin {"Identifier", "ArrayAccess"}
        THEN Throw(m, Err("Read expects variable.", <<>>))
        ELSE
        Bind(getVariable(m.cs, arg.name), LAMBDA targetVar :
            IF ~targetVar.found THEN Throw(m, NotDeclared(arg.name))
            ELSE
            Bind(IF arg.kind = "ArrayAccess" THEN EvAll(StateOf(m), arg.indexes)
                 ELSE [st |-> StateOf(m), vals |-> <<>>, err |-> NoErr],
                 LAMBDA idx :
                IF idx.err.msg # "" THEN Throw(WithState(m, idx.st), idx.err)
                ELSE Yield(SetTop(WithState(m, idx.st),
                                  [f EXCEPT !.pc = "readwait", !.target = targetVar.ref,
                                            !.indexes = idx.vals,
                                            !.typeToMatch =
                                                typeToMatch(idx.st.heap[targetVar.ref])]),
                           InputEvent(arg.name, typeToMatch(idx.st.heap[targetVar.ref])))))

\* the Read loop taking a reply that is already there for a plain variable, without
\* asking
readArgBuffered(m) ==
    LET f == Top(m)
    IN  IF f.arg > Len(f.node.args) THEN PopFrame(m)
        ELSE IF m.sent.t = "str" /\ f.node.args[f.arg].kind = "Identifier"
                /\ getVariable(m.cs, f.node.args[f.arg].name).found
        THEN SetTop([m EXCEPT !.heap = SetCellValue(@, getVariable(m.cs,
                                           f.node.args[f.arg].name).ref, m.sent),
                              !.sent = UndefV],
                    [f EXCEPT !.arg = @ + 1])
        ELSE requestInput(m)

\* for (const arg of stmt.args): the next argument, or the end of the loop
readArg(m) ==
    IF Top(m).arg > Len(Top(m).node.args) THEN PopFrame(m) ELSE requestInput(m)

\* input || "0"
InputOrZero(input) == IF Truthy(input) THEN input ELSE StrV(<<"0">>)

\* the value stored for a reply: [val, err]
parseInput(varType, input) ==
    IF varType = "Real" \/ varType = "Integer"
    THEN Bind(parseFloat(ToStr(<<>>, InputOrZero(input))), LAMBDA val :
            IF val.t = "nan" THEN [val |-> val, err |-> Err("Expected a number input.", <<>>)]
            ELSE [val |-> val, err |-> NoErr])
    ELSE IF varType = "Boolean"
    THEN [val |-> BoolV(input.t = "str" /\ toLowerCase(input.s) = <<"t", "r", "u", "e">>),
          err |-> NoErr]
    ELSE [val |-> input, err |-> NoErr]

\* the Read loop resumed with the reply: it is parsed and stored in the target
readReply(m) ==
    LET f == Top(m)
    IN  Bind(parseInput(f.typeToMatch, m.sent), LAMBDA parsed :
            IF parsed.err.msg # "" THEN Throw(m, parsed.err)
            ELSE IF m.heap[f.target].type = "Array"
            THEN Bind(setArrayValue(m.heap, m.heap[f.target].value, f.indexes, parsed.val),
                      LAMBDA set :
                        IF set.err.msg # "" THEN Throw(m, set.err)
                        ELSE SetTop([m EXCEPT !.heap = set.heap],
                                    [f EXCEPT !.pc = "readarg", !.arg = @ + 1]))
            ELSE SetTop([m EXCEPT !.heap = SetCellValue(@, f.target, parsed.val)],
                        [f EXCEPT !.pc = "readarg", !.arg = @ + 1]))

\* the array branch of the Assignment case: m1 is the machine after the value val
\* was evaluated, variable the target found
assignElement(m1, stmt, variable, val) ==
    Bind(EvAll(StateOf(m1), stmt.target.indexes), LAMBDA indexes :
        IF indexes.err.msg # "" THEN Throw(WithState(m1, indexes.st), indexes.err)
        ELSE
        Bind(setArrayValue(indexes.st.heap, indexes.st.heap[variable.ref].value,
                           indexes.vals, val.val),
             LAMBDA set :
                IF set.err.msg # "" THEN Throw(WithState(m1, indexes.st), set.err)
                ELSE PopFrame([WithState(m1, indexes.st) EXCEPT !.heap = set.heap])))

executeAssignment(m0) ==
    Bind(Dispatch(m0), LAMBDA m :
    Bind(Ev(StateOf(m), Top(m).node.value), LAMBDA val :
        IF Failed(val) THEN Throw(WithState(m, val.st), val.err)
        ELSE
        Bind(WithState(m, val.st), LAMBDA m1 :
        Bind(getVariable(m1.cs, Top(m).node.target.name), LAMBDA variable :
            IF ~variable.found THEN Throw(m1, NotDeclared(Top(m).node.target.name))
            ELSE IF Top(m).node.target.kind = "Name"
            THEN PopFrame([m1 EXCEPT !.heap = SetCellValue(@, variable.ref, val.val)])
            ELSE IF m1.heap[variable.ref].type # "Array"
            THEN Throw(m1, NotArray(Top(m).node.target.name))
            ELSE assignElement(m1, Top(m).node, variable, val)))))

executeIf(m0) ==
    Bind(Dispatch(m0), LAMBDA m :
    Bind(Ev(StateOf(m), Top(m).node.condition), LAMBDA cond :
        IF Failed(cond) THEN Throw(WithState(m, cond.st), cond.err)
        ELSE
        Bind(SetTop(WithState(m, cond.st), [Top(m) EXCEPT !.pc = "break"]), LAMBDA m1 :
            IF Truthy(cond.val) THEN Push(m1, BlockFrame(Top(m).node.thenBranch))
            ELSE IF Top(m).node.hasElse THEN Push(m1, BlockFrame(Top(m).node.elseBranch))
            ELSE m1)))

\* the While case entered
executeWhile(m0) ==
    LET m == Dispatch(m0)
    IN  SetTop(m, [Top(m) EXCEPT !.pc = "while"])

\* while (this.Ev(stmt.condition)) yield* this.executeBlock(stmt.body)
whileTest(m) ==
    Bind(Ev(StateOf(m), Top(m).node.condition), LAMBDA cond :
        IF Failed(cond) THEN Throw(WithState(m, cond.st), cond.err)
        ELSE IF Truthy(cond.val)
        THEN Push(WithState(m, cond.st), BlockFrame(Top(m).node.body))
        ELSE PopFrame(WithState(m, cond.st)))

\* the For case once start, end and step are evaluated: the loop variable is set
forEnter(m, start, end, step) ==
    Bind(WithState(m, step.st), LAMBDA m1 :
    Bind(getVariable(m1.cs, Top(m).node.variable), LAMBDA loopVar :
        IF ~loopVar.found THEN Throw(m1, NotDeclared(Top(m).node.variable))
        ELSE SetTop([m1 EXCEPT !.heap = SetCellValue(@, loopVar.ref, start.val)],
                    [Top(m) EXCEPT !.pc = "fortest", !.target = loopVar.ref,
                                   !.end = end.val, !.step = step.val])))

\* the For case entered: start, end and step are evaluated, the loop variable is set
executeFor(m0) ==
    Bind(Dispatch(m0), LAMBDA m :
    Bind(Ev(StateOf(m), Top(m).node.start), LAMBDA start :
        IF Failed(start) THEN Throw(WithState(m, start.st), start.err)
        ELSE
        Bind(Ev(start.st, Top(m).node.end), LAMBDA end :
            IF Failed(end) THEN Throw(WithState(m, end.st), end.err)
            ELSE
            Bind(IF Top(m).node.hasStep THEN Ev(end.st, Top(m).node.step)
                 ELSE Ok(end.st, NumV(1)),
                 LAMBDA step :
                    IF Failed(step) THEN Throw(WithState(m, step.st), step.err)
                    ELSE forEnter(m, start, end, step)))))

\* a For whose exit test evaluates stmt.end again at every iteration
forTestLiveEnd(m) ==
    LET f == Top(m)
    IN  IF ForExits(m.heap[f.target].value, Ev(StateOf(m), f.node.end).val, f.step)
        THEN PopFrame(m)
        ELSE Push(SetTop(m, [f EXCEPT !.pc = "forinc"]), BlockFrame(f.node.body))

\* the head of the while (true) of For: the exit test, then the body
forTest(m) ==
    LET f == Top(m)
    IN  IF ForExits(m.heap[f.target].value, f.end, f.step) THEN PopFrame(m)
        ELSE Push(SetTop(m, [f EXCEPT !.pc = "forinc"]), BlockFrame(f.node.body))

\* loopVar.value += step, after the body
forIncrement(m) ==
    LET f == Top(m)
    IN  SetTop([m EXCEPT !.heap = AddStep(@, f.target, f.step)], [f EXCEPT !.pc = "fortest"])

UnknownProcedure(name) == Err("Unknown procedure/function '${name}'.", <<name>>)
ArityError(name, expected, got) ==
    Err("'${name}' expects ${funcDef.params.length} arguments, got ${args.length}.",
        <<name, expected, got>>)

\* executeCall up to the yield* of the body
executeCall(m0) ==
    Bind(Dispatch(m0), LAMBDA m :
    LET stmt == Top(m).node
        name == toLowerCase(stmt.name)
    IN  IF name \notin DOMAIN m.fns THEN Throw(m, UnknownProcedure(stmt.name))
        ELSE IF Len(stmt.args) # Len(m.fns[name].params)
        THEN Throw(m, ArityError(stmt.name, Len(m.fns[name].params), Len(stmt.args)))
        ELSE
        Bind(EvAll(StateOf(m), stmt.args), LAMBDA args :
            IF args.err.msg # "" THEN Throw(WithState(m, args.st), args.err)
            ELSE
            Bind(bindParams(args.st.heap, NewScope, m.fns[name].params, args.vals, 1),
                 LAMBDA bound :
            Bind(initializeVariables(bound.heap, m.fns[name].variables, bound.scope),
                 LAMBDA init :
                Push(Push(SetTop([m EXCEPT !.heap = init.heap,
                                           !.cs = Append(args.st.cs, init.scope)],
                                 [Top(m) EXCEPT !.pc = "break"]),
                          CallFrame),
                     BlockFrame(m.fns[name].body))))))

\* executeCall after its try, the scope of the call left on the call stack
callReturnNoPop(m) == PopFrame(m)

\* executeCall after its try: const result = this.callStack.pop()?.returnVal
callReturn(m) == PopFrame([m EXCEPT !.cs = SubSeq(@, 1, Len(@) - 1)])

executeReturn(m0) ==
    Bind(Dispatch(m0), LAMBDA m :
    Bind(Ev(StateOf(m), Top(m).node.value), LAMBDA returnVal :
        IF Failed(returnVal) THEN Throw(WithState(m, returnVal.st), returnVal.err)
        ELSE Throw([WithState(m, returnVal.st) EXCEPT !.cs[Len(returnVal.st.cs)].returnVal =
                       returnVal.val],
                   ReturnSignal)))

\* break: executeStatement returns to executeBlock
statementEnd(m) == PopFrame(m)

(***************************************************************************)
(* Which step the running generator takes next.                            *)
(***************************************************************************)
AtStmt(m, kind, pc) ==
    /\ m.ctl # <<>>
    /\ Top(m).k = "stmt"
    /\ Top(m).pc = pc
    /\ Top(m).node.kind = kind
AtRead(m, pc) == AtStmt(m, "IO", pc) /\ Top(m).node.type = "Read"
AtFrame(m, k, pc) == m.ctl # <<>> /\ Top(m).k = k /\ Top(m).pc = pc

microStep(m) ==
    CASE AtFrame(m, "execute", "start") -> executeStart(m)
      [] AtFrame(m, "execute", "started") -> executeBody(m)
      [] AtFrame(m, "execute", "body") -> executeEnd(m)
      [] AtFrame(m, "execute", "caught") -> executeEnd(m)
      [] m.ctl # <<>> /\ Top(m).k = "block" -> executeBlock(m)
      [] AtFrame(m, "call", "body") -> callReturn(m)
      [] AtStmt(m, "IO", "step") /\ Top(m).node.type = "Write" -> executeWrite(m)
      [] AtRead(m, "step") -> executeRead(m)
      [] AtRead(m, "readarg") -> readArg(m)
      [] AtRead(m, "readwait") -> readReply(m)
      [] AtStmt(m, "Assignment", "step") -> executeAssignment(m)
      [] AtStmt(m, "If", "step") -> executeIf(m)
      [] AtStmt(m, "While", "step") -> executeWhile(m)
      [] AtStmt(m, "While", "while") -> whileTest(m)
      [] AtStmt(m, "For", "step") -> executeFor(m)
      [] AtStmt(m, "For", "fortest") -> forTest(m)
      [] AtStmt(m, "For", "forinc") -> forIncrement(m)
      [] AtStmt(m, "Call", "step") -> executeCall(m)
      [] AtStmt(m, "Return", "step") -> executeReturn(m)
      [] OTHER -> statementEnd(m)

(***************************************************************************)
(* Programs run by the model, as parse() builds them from the source given *)
(* in the comment before each one.                                         *)
(***************************************************************************)
Str(chars) == Lit(StrV(chars))
Less(l, r) == Bin(l, "LESS", r)
Eq(l, r) == Bin(l, "EQUAL", r)
Plus(l, r) == Bin(l, "PLUS", r)

\* 1 Algorithm H
\* 2 Begin Write("Hi") End
HelloProgram == Program(<<>>, <<>>, <<WriteStmt(<<Str(<<"H", "i">>)>>, 2)>>, 1)

\*  1 Algorithm Loops
\*  2 Var n, i : Integer  v : array [2] of Integer
\*  3 Begin
\*  4   While n < 2 Do
\*  5     n <- n + 1
\*  6   EndWhile
\*  7   For i <- 0 To 1 Do
\*  8     v[i] <- n + i
\*  9   EndFor
\* 10   If v[1] = 3 Then
\* 11     Write(v[1], v)
\* 12   Else
\* 13     Write("no")
\* 14   EndIf
\* 15 End
LoopsProgram ==
    Program(
        <<VarDecl(<<"n", "i">>, TInteger, <<>>), VarDecl(<<"v">>, TInteger, <<2>>)>>,
        <<>>,
        <<WhileStmt(Less(Id("n"), Num(2)), <<Assign(Name("n"), Plus(Id("n"), Num(1)), 5)>>, 4),
          ForStmt("i", Num(0), Num(1),
                  <<Assign(Acc("v", <<Id("i")>>), Plus(Id("n"), Id("i")), 8)>>, 7),
          IfElse(Eq(Acc("v", <<Num(1)>>), Num(3)),
                 <<WriteStmt(<<Acc("v", <<Num(1)>>), Id("v")>>, 11)>>,
                 <<WriteStmt(<<Str(<<"n", "o">>)>>, 13)>>, 10)>>,
        1)

\*  1 Algorithm Calls
\*  2 Var a : array [2] of Integer  x : Integer
\*  3 Function Twice(k : Integer) : Integer
\*  4 Var t : Integer
\*  5 Begin
\*  6   Write(k)
\*  7   Read(t)
\*  8   t <- k * 2
\*  9   If t > 0 Then
\* 10     Return t
\* 11   EndIf
\* 12   Return 0
\* 13 EndFunction
\* 14 Procedure Fill(p : Integer, q : Integer)
\* 15 Begin
\* 16   a[0] <- q
\* 17   x <- Twice(q) + x
\* 18 EndProcedure
\* 19 Begin
\* 20   x <- twice(3)
\* 21   Fill(a, x)
\* 22   Twice(0 - 1)
\* 23   Write(x, a)
\* 24 End
NameTwice == <<"T", "w", "i", "c", "e">>
NameFill == <<"F", "i", "l", "l">>
TwiceDecl ==
    FunctionDecl(NameTwice, <<Param("k", TInteger)>>, <<VarDecl(<<"t">>, TInteger, <<>>)>>,
        <<WriteStmt(<<Id("k")>>, 6),
          ReadStmt(<<Id("t")>>, 7),
          Assign(Name("t"), Bin(Id("k"), "MULTIPLY", Num(2)), 8),
          IfStmt(Bin(Id("t"), "GREATER", Num(0)), <<ReturnStmt(Id("t"), 10)>>, 9),
          ReturnStmt(Num(0), 12)>>)
FillDecl ==
    ProcedureDecl(NameFill, <<Param("p", TInteger), Param("q", TInteger)>>, <<>>,
        <<Assign(Acc("a", <<Num(0)>>), Id("q"), 16),
          Assign(Name("x"), Plus(CallNode(NameTwice, <<Id("q")>>, 17), Id("x")), 17)>>)
CallsProgram ==
    Program(
        <<VarDecl(<<"a">>, TInteger, <<2>>), VarDecl(<<"x">>, TInteger, <<>>)>>,
        <<TwiceDecl, FillDecl>>,
        <<Assign(Name("x"), CallNode(toLowerCase(NameTwice), <<Num(3)>>, 20), 20),
          CallNode(NameFill, <<Id("a"), Id("x")>>, 21),
          CallNode(NameTwice, <<Bin(Num(0), "MINUS", Num(1))>>, 22),
          WriteStmt(<<Id("x"), Id("a")>>, 23)>>,
        1)

\*  1 Algorithm Bounds
\*  2 Var v : array [3] of Integer  g : array [2][2] of Integer
\*  3     z : array [0] of Integer  k, i, x : Integer
\*  4 Begin
\*  5   Read(k, i)
\*  6   If k = 0 Then
\*  7     v[i] <- 7
\*  8   EndIf
\*  9   If k = 1 Then
\* 10     x <- v[i] + 1
\* 11   EndIf
\* 12   If k = 2 Then
\* 13     Read(v[i])
\* 14   EndIf
\* 15   If k = 3 Then
\* 16     g[1][i] <- 7
\* 17   EndIf
\* 18   If k = 0 - 1 Then
\* 19     g[i][0] <- 7
\* 20   EndIf
\* 21   If k = 12 Then
\* 22     Write(z[i])
\* 23   EndIf
\* 24 End
BoundsProgram ==
    Program(
        <<VarDecl(<<"v">>, TInteger, <<3>>), VarDecl(<<"g">>, TInteger, <<2, 2>>),
          VarDecl(<<"z">>, TInteger, <<0>>), VarDecl(<<"k", "i", "x">>, TInteger, <<>>)>>,
        <<>>,
        <<ReadStmt(<<Id("k"), Id("i")>>, 5),
          IfStmt(Eq(Id("k"), Num(0)), <<Assign(Acc("v", <<Id("i")>>), Num(7), 7)>>, 6),
          IfStmt(Eq(Id("k"), Num(1)),
                 <<Assign(Name("x"), Plus(Acc("v", <<Id("i")>>), Num(1)), 10)>>, 9),
          IfStmt(Eq(Id("k"), Num(2)), <<ReadStmt(<<Acc("v", <<Id("i")>>)>>, 13)>>, 12),
          IfStmt(Eq(Id("k"), Num(3)), <<Assign(Acc("g", <<Num(1), Id("i")>>), Num(7), 16)>>, 15),
          IfStmt(Eq(Id("k"), Bin(Num(0), "MINUS", Num(1))),
                 <<Assign(Acc("g", <<Id("i"), Num(0)>>), Num(7), 19)>>, 18),
          IfStmt(Eq(Id("k"), Num(12)), <<WriteStmt(<<Acc("z", <<Id("i")>>)>>, 22)>>, 21)>>,
        1)

\* 1 Algorithm Early
\* 2 Var x : Integer
\* 3 Begin
\* 4   x <- 1
\* 5   If x = 1 Then
\* 6     Return x + 1
\* 7   EndIf
\* 8   Write(x)
\* 9 End
EarlyProgram ==
    Program(
        <<VarDecl(<<"x">>, TInteger, <<>>)>>,
        <<>>,
        <<Assign(Name("x"), Num(1), 4),
          IfStmt(Eq(Id("x"), Num(1)), <<ReturnStmt(Plus(Id("x"), Num(1)), 6)>>, 5),
          WriteStmt(<<Id("x")>>, 8)>>,
        1)

\* 1 Algorithm Inputs
\* 2 Var n : Integer  b : Boolean
\* 3 Begin
\* 4   Read(n, b)
\* 5   Write(n, b)
\* 6 End
InputsProgram ==
    Program(
        <<VarDecl(<<"n">>, TInteger, <<>>), VarDecl(<<"b">>, TBoolean, <<>>)>>,
        <<>>,
        <<ReadStmt(<<Id("n"), Id("b")>>, 4),
          WriteStmt(<<Id("n"), Id("b")>>, 5)>>,
        1)

\* 1 Algorithm Texts
\* 2 Var s : String  v : array [2] of Real
\* 3 Begin
\* 4   Read(s, v[1])
\* 5   Write(s, v)
\* 6 End
TextsProgram ==
    Program(
        <<VarDecl(<<"s">>, TString, <<>>), VarDecl(<<"v">>, TReal, <<2>>)>>,
        <<>>,
        <<ReadStmt(<<Id("s"), Acc("v", <<Num(1)>>)>>, 4),
          WriteStmt(<<Id("s"), Id("v")>>, 5)>>,
        1)

\*  1 Algorithm Typed
\*  2 Var n : Integer
\*  3 Function Label(k : Integer) : Integer
\*  4 Var t : Integer
\*  5 Begin
\*  6   t <- "a"
\*  7   Return t
\*  8 EndFunction
\*  9 Begin
\* 10   n <- Label(1)
\* 11   Write(n)
\* 12 End
NameLabel == <<"L", "a", "b", "e", "l">>
TypedProgram ==
    Program(
        <<VarDecl(<<"n">>, TInteger, <<>>)>>,
        <<FunctionDecl(NameLabel, <<Param("k", TInteger)>>, <<VarDecl(<<"t">>, TInteger, <<>>)>>,
            <<Assign(Name("t"), Str(<<"a">>), 6),
              ReturnStmt(Id("t"), 7)>>)>>,
        <<Assign(Name("n"), CallNode(NameLabel, <<Num(1)>>, 10), 10),
          WriteStmt(<<Id("n")>>, 11)>>,
        1)

\* 1 Algorithm Spin
\* 2 Var n, i : Integer
\* 3 Begin
\* 4   For i <- 0 To 1 Do
\* 5   EndFor
\* 6   While n < 1 Do
\* 7   EndWhile
\* 8   Write(n)
\* 9 End
SpinProgram ==
    Program(
        <<VarDecl(<<"n", "i">>, TInteger, <<>>)>>,
        <<>>,
        <<ForStmt("i", Num(0), Num(1), <<>>, 4),
          WhileStmt(Less(Id("n"), Num(1)), <<>>, 6),
          WriteStmt(<<Id("n")>>, 8)>>,
        1)

\*  1 Algorithm Fors
\*  2 Var i, e, s, c : Integer
\*  3 Begin
\*  4   e <- 1
\*  5   s <- 1
\*  6   For i <- 0 To e Step s Do
\*  7     e <- 0
\*  8     s <- 5
\*  9   EndFor
\* 10   For i <- 0 To 2 Do
\* 11     i <- i + 1
\* 12   EndFor
\* 13   For i <- 1 To 0 Do
\* 14     c <- c + 1
\* 15   EndFor
\* 16 End
ForsProgram ==
    Program(
        <<VarDecl(<<"i", "e", "s", "c">>, TInteger, <<>>)>>,
        <<>>,
        <<Assign(Name("e"), Num(1), 4),
          Assign(Name("s"), Num(1), 5),
          ForStep("i", Num(0), Id("e"), Id("s"),
                  <<Assign(Name("e"), Num(0), 7), Assign(Name("s"), Num(5), 8)>>, 6),
          ForStmt("i", Num(0), Num(2), <<Assign(Name("i"), Plus(Id("i"), Num(1)), 11)>>, 10),
          ForStmt("i", Num(1), Num(0), <<Assign(Name("c"), Plus(Id("c"), Num(1)), 14)>>, 13)>>,
        1)

\* 1 Algorithm Zero
\* 2 Var i, a, b, c : Integer
\* 3 Begin
\* 4   Read(a, b)
\* 5   For i <- a To b Step 0 Do
\* 6     c <- c + 1
\* 7   EndFor
\* 8   Write(c)
\* 9 End
ZeroProgram ==
    Program(
        <<VarDecl(<<"i", "a", "b", "c">>, TInteger, <<>>)>>,
        <<>>,
        <<ReadStmt(<<Id("a"), Id("b")>>, 4),
          ForStep("i", Id("a"), Id("b"), Num(0),
                  <<Assign(Name("c"), Plus(Id("c"), Num(1)), 6)>>, 5),
          WriteStmt(<<Id("c")>>, 8)>>,
        1)

\*  1 Algorithm Pure
\*  2 Var g : Integer  v : array [2] of Integer
\*  3 Procedure Mark()
\*  4 Begin
\*  5   v[1] <- g
\*  6 EndProcedure
\*  7 Function Sum(k : Integer) : Integer
\*  8 Var t, j : Integer
\*  9 Begin
\* 10   For j <- 2 To k Do
\* 11     t <- t + j
\* 12   EndFor
\* 13   While g < 1 Do
\* 14     g <- g + 1
\* 15   EndWhile
\* 16   v[0] <- t
\* 17   Mark()
\* 18   If t > 1 Then
\* 19     Return t
\* 20   EndIf
\* 21   Return 0
\* 22 EndFunction
\* 23 Begin
\* 24   Sum(2)
\* 25   g <- Sum(1)
\* 26 End
NameMark == <<"M", "a", "r", "k">>
NameSum == <<"S", "u", "m">>
PureProgram ==
    Program(
        <<VarDecl(<<"g">>, TInteger, <<>>), VarDecl(<<"v">>, TInteger, <<2>>)>>,
        <<ProcedureDecl(NameMark, <<>>, <<>>, <<Assign(Acc("v", <<Num(1)>>), Id("g"), 5)>>),
          FunctionDecl(NameSum, <<Param("k", TInteger)>>, <<VarDecl(<<"t", "j">>, TInteger, <<>>)>>,
            <<ForStmt("j", Num(2), Id("k"), <<Assign(Name("t"), Plus(Id("t"), Id("j")), 11)>>, 10),
              WhileStmt(Less(Id("g"), Num(1)), <<Assign(Name("g"), Plus(Id("g"), Num(1)), 14)>>,
                        13),
              Assign(Acc("v", <<Num(0)>>), Id("t"), 16),
              CallNode(NameMark, <<>>, 17),
              IfStmt(Bin(Id("t"), "GREATER", Num(1)), <<ReturnStmt(Id("t"), 19)>>, 18),
              ReturnStmt(Num(0), 21)>>)>>,
        <<CallNode(NameSum, <<Num(2)>>, 24),
          Assign(Name("g"), CallNode(NameSum, <<Num(1)>>, 25), 25)>>,
        1)

\* the programs run to observe loops and calls
LoopPrograms == {LoopsProgram, SpinProgram, ForsProgram, ZeroProgram, PureProgram}

\*  1 Algorithm Pair
\*  2 Var n : Integer
\*  3 Procedure Bump(k : Integer)
\*  4 Begin
\*  5   n <- n + k
\*  6   Return 0
\*  7 EndProcedure
\*  8 Begin
\*  9   Read(n)
\* 10   While n < 2 Do
\* 11     n <- n + 1
\* 12   EndWhile
\* 13   Bump(1)
\* 14   Write(n)
\* 15 End
NameBump == <<"B", "u", "m", "p">>
PairProgram ==
    Program(
        <<VarDecl(<<"n">>, TInteger, <<>>)>>,
        <<ProcedureDecl(NameBump, <<Param("k", TInteger)>>, <<>>,
            <<Assign(Name("n"), Plus(Id("n"), Id("k")), 5),
              ReturnStmt(Num(0), 6)>>)>>,
        <<ReadStmt(<<Id("n")>>, 9),
          WhileStmt(Less(Id("n"), Num(2)), <<Assign(Name("n"), Plus(Id("n"), Num(1)), 11)>>, 10),
          CallNode(NameBump, <<Num(1)>>, 13),
          WriteStmt(<<Id("n")>>, 14)>>,
        1)

Programs ==
    {HelloProgram, LoopsProgram, CallsProgram, BoundsProgram, EarlyProgram, InputsProgram,
     TextsProgram, TypedProgram}

\* what the host may pass to next(): nothing, or a line of text
ReplyTexts ==
    {<<>>, <<"0">>, <<"1">>, <<"2">>, <<"3">>, <<"-", "1">>, <<"1", "2", "a", "b", "c">>,
     <<"a", "b", "c">>, <<"t", "r", "u", "e">>, <<"T", "R", "U", "E">>, <<"2", ".", "0">>}
Replies == {UndefV} \cup {StrV(r) : r \in ReplyTexts}

(***************************************************************************)
(* The lexer (services/algo/lexer.ts).  A Lexer object lx has the fields   *)
(* source, pos and line; tokens is the list tokenize() is building, and    *)
(* status tells whether tokenize() is still in its loop ("scanning"), has  *)
(* returned the list ("returned") or has thrown ("thrown", with error).    *)
(* A token carries, besides type, value and line, the position at of its   *)
(* first character in the source, which the program does not record.       *)
(***************************************************************************)
NewLexer(source) ==
    [source |-> source, pos |-> 0, line |-> 1, tokens |-> <<>>, status |-> "scanning",
     error |-> NoErr]

peek(lx) == IF lx.pos < Len(lx.source) THEN lx.source[lx.pos + 1] ELSE ""

advance(lx) ==
    [lx EXCEPT !.pos = @ + 1, !.line = IF peek(lx) = "\n" THEN @ + 1 ELSE @]

isDigit(char) == IsDigit(char)
isAlpha(char) ==
    \/ \E i \in 1..26 : char = LowerCase[i] \/ char = UpperCase[i]
    \/ char = "_"
isWhitespace(char) == char \in {" ", "\n", "\t", "\r"}

\* while (this.peek() !== stop && this.peek() !== '') this.advance()
RECURSIVE advanceUntil(_, _)
advanceUntil(lx, stop) ==
    IF peek(lx) # stop /\ peek(lx) # "" THEN advanceUntil(advance(lx), stop) ELSE lx

\* while (this.isDigit(this.peek())) numStr += this.advance()
RECURSIVE advanceDigits(_)
advanceDigits(lx) == IF isDigit(peek(lx)) THEN advanceDigits(advance(lx)) ELSE lx

\* while (this.isAlpha(this.peek()) || this.isDigit(this.peek())) id += this.advance()
RECURSIVE advanceWord(_)
advanceWord(lx) ==
    IF isAlpha(peek(lx)) \/ isDigit(peek(lx)) THEN advanceWord(advance(lx)) ELSE lx

\* the characters advanced over between lexer states from and upto
TextBetween(from, upto) ==
    SubSeq(from.source, from.pos + 1,
           IF upto.pos < Len(from.source) THEN upto.pos ELSE Len(from.source))

Token(type, value, line, at) == [type |-> type, value |-> value, line |-> line, at |-> at]

\* tokens.push({ type, value, line: this.line }), for a token that began at position at
pushToken(lx, type, value, at) ==
    [lx EXCEPT !.tokens = Append(@, Token(type, value, lx.line, at))]

\* the keywords record of tokenize
keywords ==
    (<<"a", "l", "g", "o", "r", "i", "t", "h", "m">> :> "ALGORITHM")
    @@ (<<"b", "e", "g", "i", "n">> :> "BEGIN")
    @@ (<<"e", "n", "d">> :> "END")
    @@ (<<"v", "a", "r">> :> "VAR")
    @@ (<<"c", "o", "n", "s", "t">> :> "CONST")
    @@ (<<"i", "f">> :> "IF")
    @@ (<<"t", "h", "e", "n">> :> "THEN")
    @@ (<<"e", "l", "s", "e">> :> "ELSE")
    @@ (<<"e", "n", "d", "i", "f">> :> "ENDIF")
    @@ (<<"f", "o", "r">> :> "FOR")
    @@ (<<"t", "o">> :> "TO")
    @@ (<<"s", "t", "e", "p">> :> "STEP")
    @@ (<<"d", "o">> :> "DO")
    @@ (<<"e", "n", "d", "f", "o", "r">> :> "ENDFOR")
    @@ (<<"w", "h", "i", "l", "e">> :> "WHILE")
    @@ (<<"e", "n", "d", "w", "h", "i", "l", "e">> :> "ENDWHILE")
    @@ (<<"r", "e", "a", "d">> :> "READ")
    @@ (<<"w", "r", "i", "t", "e">> :> "WRITE")
    @@ (<<"i", "n", "t", "e", "g", "e", "r">> :> "T_INTEGER")
    @@ (<<"r", "e", "a", "l">> :> "T_REAL")
    @@ (<<"b", "o", "o", "l", "e", "a", "n">> :> "T_BOOLEAN")
    @@ (<<"s", "t", "r", "i", "n", "g">> :> "T_STRING")
    @@ (<<"c", "h", "a", "r">> :> "T_CHAR")
    @@ (<<"m", "o", "d">> :> "MOD")
    @@ (<<"d", "i", "v">> :> "DIV")
    @@ (<<"a", "n", "d">> :> "AND")
    @@ (<<"o", "r">> :> "OR")
    @@ (<<"n", "o", "t">> :> "NOT")
    @@ (<<"f", "u", "n", "c", "t", "i", "o", "n">> :> "FUNCTION")
    @@ (<<"e", "n", "d", "f", "u", "n", "c", "t", "i", "o", "n">> :> "ENDFUNCTION")
    @@ (<<"p", "r", "o", "c", "e", "d", "u", "r", "e">> :> "PROCEDURE")
    @@ (<<"e", "n", "d", "p", "r", "o", "c", "e", "d", "u", "r", "e">> :> "ENDPROCEDURE")
    @@ (<<"r", "e", "t", "u", "r", "n">> :> "RETURN")

\* the names a plain object inherits, for which keywords[lowerId] is not undefined
InheritedNames ==
    {<<"c", "o", "n", "s", "t", "r", "u", "c", "t", "o", "r">>,
     <<"_", "_", "p", "r", "o", "t", "o", "_", "_">>}

\* keywords[id], looked up without lower-casing
keywordTypeExact(id) ==
    IF id \in DOMAIN keywords THEN keywords[id]
    ELSE IF id \in InheritedNames THEN "Object.prototype"
    ELSE "IDENTIFIER"

\* keywords[lowerId] if it is not undefined, else IDENTIFIER
keywordType(id) ==
    IF toLowerCase(id) \in DOMAIN keywords THEN keywords[toLowerCase(id)]
    ELSE IF toLowerCase(id) \in InheritedNames THEN "Object.prototype"
    ELSE "IDENTIFIER"

\* { ... }: to the closing brace or the end of the source, and one character more
lexBraceComment(lx) == advance(advanceUntil(lx, "}"))

\* // ...: to the end of the line
lexLineComment(lx) == advanceUntil(lx, "\n")

lexNumber(lx) ==
    Bind(advanceDigits(lx), LAMBDA whole :
    Bind(IF peek(whole) = "." THEN advanceDigits(advance(whole)) ELSE whole, LAMBDA done :
        pushToken(done, "NUMBER_LITERAL", TextBetween(lx, done), lx.pos)))

\* a string: the characters up to the closing quote or to the end of the source
lexString(lx) ==
    Bind(advance(lx), LAMBDA opened :
    Bind(advanceUntil(opened, peek(lx)), LAMBDA body :
        pushToken(advance(body), "STRING_LITERAL", TextBetween(opened, body), lx.pos)))

lexWord(lx) ==
    Bind(advanceWord(lx), LAMBDA done :
        pushToken(done, keywordType(TextBetween(lx, done)), TextBetween(lx, done), lx.pos))

\* the operators of one character: the token is pushed, then the character consumed
SingleOperators ==
    ("+" :> "PLUS") @@ ("-" :> "MINUS") @@ ("*" :> "MULTIPLY") @@ ("/" :> "DIVIDE")
    @@ ("(" :> "LPAREN") @@ (")" :> "RPAREN") @@ ("[" :> "LBRACKET") @@ ("]" :> "RBRACKET")
    @@ ("," :> "COMMA") @@ ("=" :> "EQUAL")

\* case ':', '<', '>': the character is consumed, then the next one decides
lexCompound(lx, char) ==
    Bind(advance(lx), LAMBDA after :
        IF char = ":"
        THEN (IF peek(after) = "=" THEN pushToken(advance(after), "ASSIGN", <<":", "=">>, lx.pos)
              ELSE pushToken(after, "COLON", <<":">>, lx.pos))
        ELSE IF char = "<"
        THEN (IF peek(after) = "="
              THEN advance(pushToken(after, "LESS_EQUAL", <<"<", "=">>, lx.pos))
              ELSE IF peek(after) = ">"
              THEN advance(pushToken(after, "NOT_EQUAL", <<"<", ">">>, lx.pos))
              ELSE IF peek(after) = "-"
              THEN advance(pushToken(after, "ASSIGN", <<"<", "-">>, lx.pos))
              ELSE pushToken(after, "LESS", <<"<">>, lx.pos))
        ELSE (IF peek(after) = "="
              THEN advance(pushToken(after, "GREATER_EQUAL", <<">", "=">>, lx.pos))
              ELSE pushToken(after, "GREATER", <<">">>, lx.pos)))

UnexpectedCharacter(char, line) ==
    Err("Unexpected character '${char}' at line ${this.line}", <<char, line>>)

\* the switch on operators and punctuation
lexOperator(lx) ==
    Bind(peek(lx), LAMBDA char :
        IF char \in DOMAIN SingleOperators
        THEN advance(pushToken(lx, SingleOperators[char], <<char>>, lx.pos))
        ELSE IF char \in {":", "<", ">"} THEN lexCompound(lx, char)
        ELSE [lx EXCEPT !.status = "thrown", !.error = UnexpectedCharacter(char, lx.line)])

\* which branch of the loop body the character at pos takes
Branch(lx) ==
    Bind(peek(lx), LAMBDA char :
        IF isWhitespace(char) THEN "whitespace"
        ELSE IF char = "{" THEN "brace"
        ELSE IF char = "/" /\ peek(advance(lx)) = "/" THEN "line"
        ELSE IF isDigit(char) THEN "number"
        ELSE IF char = "\"" \/ char = "'" THEN "string"
        ELSE IF isAlpha(char) THEN "word"
        ELSE "operator")

\* after the loop: tokens.push({ type: EOF, ... }); return tokens
lexEnd(lx) ==
    [pushToken(lx, "EOF", <<>>, lx.pos) EXCEPT !.status = "returned"]

\* one turn of the loop of tokenize, or its end
lexStep(lx) ==
    IF lx.pos >= Len(lx.source) THEN lexEnd(lx)
    ELSE CASE Branch(lx) = "whitespace" -> advance(lx)
           [] Branch(lx) = "brace" -> lexBraceComment(lx)
           [] Branch(lx) = "line" -> lexLineComment(lx)
           [] Branch(lx) = "number" -> lexNumber(lx)
           [] Branch(lx) = "string" -> lexString(lx)
           [] Branch(lx) = "word" -> lexWord(lx)
           [] OTHER -> lexOperator(lx)

\* new Lexer(source).tokenize(): the lexer when tokenize has returned or thrown
RECURSIVE runLexer(_)
runLexer(lx) == IF lx.status # "scanning" THEN lx ELSE runLexer(lexStep(lx))
tokenize(source) == runLexer(NewLexer(source))

\* the sources tokenized: every text of at most MaxSourceLen of these characters
SourceChars == {"i", "f", "F", "1", "\n", "\"", "<", "/", "{", "@"}
Sources == UNION {[1..n -> SourceChars] : n \in 0..MaxSourceLen}

(***************************************************************************)
(* The expression parser (Parser.parseExpression and the methods under     *)
(* it).  A Parser object ps has the fields tokens and current; a parse     *)
(* method gives [ps, node, err], err being the Error it threw.  Nodes are  *)
(* the AST nodes above with their line, and with the index from of their   *)
(* first token in the token list, which the program does not record.       *)
(***************************************************************************)
NewParser(tokens) == [tokens |-> tokens, current |-> 0]

peekToken(ps) == ps.tokens[ps.current + 1]
previous(ps) == ps.tokens[ps.current]
isAtEnd(ps) == peekToken(ps).type = "EOF"
advanceToken(ps) == IF ~isAtEnd(ps) THEN [ps EXCEPT !.current = @ + 1] ELSE ps
\* check(type) for one of the types
check(ps, types) == ~isAtEnd(ps) /\ peekToken(ps).type \in types

ParseOk(ps, node) == [ps |-> ps, node |-> node, err |-> NoErr]
ParseFail(ps, e) == [ps |-> ps, node |-> [kind |-> "none"], err |-> e]
\* throw new Error(`Line ${this.peek().line}: ${message}`)
ParseError(ps, message) == Err("Line ${this.peek().line}: " \o message, <<peekToken(ps).line>>)
\* consume(type, message): the parser after it, or the error
consume(ps, type, message) ==
    IF check(ps, {type}) THEN ParseOk(advanceToken(ps), [kind |-> "none"])
    ELSE ParseFail(ps, ParseError(ps, message))

\* a node with its line and the index of its first token
Located(node, line, from) == [line |-> line, from |-> from] @@ node

\* the operators of parseLogicOr, parseLogicAnd, parseEquality, parseComparison,
\* parseTerm and parseFactor
BinaryLevels ==
    <<{"OR"}, {"AND"}, {"EQUAL", "NOT_EQUAL"},
      {"GREATER", "GREATER_EQUAL", "LESS", "LESS_EQUAL"},
      {"PLUS", "MINUS"}, {"MULTIPLY", "DIVIDE", "MOD", "DIV"}>>

\* Every call among the parse methods goes through parseRule, the one operator
\* declared recursive.
RECURSIVE parseRule(_)
ParseLevel(ps, k) == parseRule([rule |-> "level", ps |-> ps, k |-> k])
ParseLevelRest(left, k, from) ==
    parseRule([rule |-> "levelRest", left |-> left, k |-> k, from |-> from])
ParseUnary(ps) == parseRule([rule |-> "unary", ps |-> ps])
ParseList(ps, done) == parseRule([rule |-> "list", ps |-> ps, done |-> done])
ParseIndexes(ps, done) == parseRule([rule |-> "indexes", ps |-> ps, done |-> done])
parseExpression(ps) == ParseLevel(ps, 1)

\* the loop of a binary level: while (this.match(...operators)) { ... }, the node
\* taking the line of the operator
parseLevelRest(left, k, from) ==
    IF ~check(left.ps, BinaryLevels[k]) THEN left
    ELSE Bind(advanceToken(left.ps), LAMBDA ps1 :
         Bind(ParseLevel(ps1, k + 1), LAMBDA right :
            IF Failed(right) THEN right
            ELSE ParseLevelRest(
                    ParseOk(right.ps,
                            Located(Bin(left.node, previous(ps1).type, right.node),
                                    previous(ps1).line, from)),
                    k, from)))

\* parseLogicOr (k = 1) .. parseFactor (k = 6); below them parseUnary
parseLevel(ps, k) ==
    IF k > Len(BinaryLevels) THEN ParseUnary(ps)
    ELSE Bind(ParseLevel(ps, k + 1), LAMBDA left :
            IF Failed(left) THEN left ELSE ParseLevelRest(left, k, ps.current + 1))

\* do { args.push(this.parseExpression()) } while (this.match(COMMA)): [ps, nodes, err]
parseList(ps, done) ==
    Bind(parseExpression(ps), LAMBDA one :
        IF Failed(one) THEN [ps |-> one.ps, nodes |-> done, err |-> one.err]
        ELSE IF check(one.ps, {"COMMA"})
        THEN ParseList(advanceToken(one.ps), Append(done, one.node))
        ELSE [ps |-> one.ps, nodes |-> Append(done, one.node), err |-> NoErr])

parseCallStatement(ps) ==
    Bind(consume(ps, "IDENTIFIER", "Expect identifier."), LAMBDA name :
        IF Failed(name) THEN name
        ELSE
        Bind(consume(name.ps, "LPAREN", "Expect '('."), LAMBDA open :
            IF Failed(open) THEN open
            ELSE
            Bind(IF check(open.ps, {"RPAREN"})
                 THEN [ps |-> open.ps, nodes |-> <<>>, err |-> NoErr]
                 ELSE ParseList(open.ps, <<>>),
                 LAMBDA args :
                IF Failed(args) THEN ParseFail(args.ps, args.err)
                ELSE
                Bind(consume(args.ps, "RPAREN", "Expect ')'."), LAMBDA close :
                    IF Failed(close) THEN close
                    ELSE ParseOk(close.ps,
                                 Located(CallNode(peekToken(ps).value, args.nodes,
                                                  peekToken(ps).line),
                                         peekToken(ps).line, ps.current + 1))))))

\* while (this.match(LBRACKET)) { indexes.push(...); this.consume(RBRACKET, ...) }
parseIndexes(ps, done) ==
    IF ~check(ps, {"LBRACKET"}) THEN [ps |-> ps, nodes |-> done, err |-> NoErr]
    ELSE Bind(parseExpression(advanceToken(ps)), LAMBDA one :
            IF Failed(one) THEN [ps |-> one.ps, nodes |-> done, err |-> one.err]
            ELSE Bind(consume(one.ps, "RBRACKET", "Expect ']'."), LAMBDA close :
                    IF Failed(close) THEN [ps |-> close.ps, nodes |-> done, err |-> close.err]
                    ELSE ParseIndexes(close.ps, Append(done, one.node))))

parseReference(ps) ==
    Bind(consume(ps, "IDENTIFIER", "Expect identifier."), LAMBDA nameToken :
        IF Failed(nameToken) THEN nameToken
        ELSE Bind(ParseIndexes(nameToken.ps, <<>>), LAMBDA indexes :
                IF Failed(indexes) THEN ParseFail(indexes.ps, indexes.err)
                ELSE IF Len(indexes.nodes) > 0
                THEN ParseOk(indexes.ps,
                             Located(Acc(peekToken(ps).value, indexes.nodes),
                                     peekToken(ps).line, ps.current + 1))
                ELSE ParseOk(indexes.ps,
                             Located(Id(peekToken(ps).value),
                                     peekToken(ps).line, ps.current + 1))))

parsePrimary(ps) ==
    IF check(ps, {"NUMBER_LITERAL"})
    THEN ParseOk(advanceToken(ps),
                 Located(Lit(parseFloat(peekToken(ps).value)), peekToken(ps).line,
                         ps.current + 1))
    ELSE IF check(ps, {"STRING_LITERAL"})
    THEN ParseOk(advanceToken(ps),
                 Located(Lit(StrV(peekToken(ps).value)), peekToken(ps).line, ps.current + 1))
    ELSE IF check(ps, {"LPAREN"})
    THEN Bind(parseExpression(advanceToken(ps)), LAMBDA expr :
            IF Failed(expr) THEN expr
            ELSE Bind(consume(expr.ps, "RPAREN", "Expect ')' after expression."),
                      LAMBDA close :
                        IF Failed(close) THEN close ELSE ParseOk(close.ps, expr.node)))
    ELSE IF check(ps, {"IDENTIFIER"})
    THEN (IF ps.current + 2 <= Len(ps.tokens) /\ ps.tokens[ps.current + 2].type = "LPAREN"
          THEN parseCallStatement(ps)
          ELSE parseReference(ps))
    ELSE ParseFail(ps, ParseError(ps, "Expect expression."))

parseUnary(ps) ==
    IF check(ps, {"NOT", "MINUS"})
    THEN Bind(ParseUnary(advanceToken(ps)), LAMBDA operand :
            IF Failed(operand) THEN operand
            ELSE ParseOk(operand.ps,
                         Located(Un(peekToken(ps).type, operand.node), peekToken(ps).line,
                                 ps.current + 1)))
    ELSE parsePrimary(ps)

parseRule(task) ==
    CASE task.rule = "level" -> parseLevel(task.ps, task.k)
      [] task.rule = "levelRest" -> parseLevelRest(task.left, task.k, task.from)
      [] task.rule = "unary" -> parseUnary(task.ps)
      [] task.rule = "list" -> parseList(task.ps, task.done)
      [] task.rule = "indexes" -> parseIndexes(task.ps, task.done)

\* the Parser object before and after a parse of an expression
IdleParser == [tokens |-> <<>>, current |-> 0, status |-> "idle", node |-> [kind |-> "none"],
               error |-> NoErr]
ParserAfter(r) ==
    [tokens |-> r.ps.tokens, current |-> r.ps.current,
     status |-> IF Failed(r) THEN "thrown" ELSE "parsed", node |-> r.node, error |-> r.err]

\* no expression is being evaluated on its own
IdleCalc ==
    [node |-> [kind |-> "none"], status |-> "idle", value |-> UndefV, error |-> NoErr,
     after |-> [cs |-> <<>>, heap |-> <<>>, fns |-> EmptyMap, fuel |-> 0]]

\* the App component as mounted: nothing runs, generatorRef.current is null
IdleDriver ==
    [isRunning |-> FALSE, isPaused |-> FALSE, isWaitingForInput |-> FALSE,
     expectedType |-> "Real", activeLine |-> 0, output |-> <<>>, errors |-> <<>>,
     breakpoints |-> {}, generatorRef |-> 0, generators |-> <<>>, timers |-> <<>>, runs |-> 0,
     applied |-> [gen |-> 0, type |-> "none", stale |-> FALSE],
     lastNext |-> [gen |-> 0, by |-> "none", arg |-> UndefV, pending |-> FALSE,
                   varType |-> "", waiting |-> FALSE, loops |-> 0]]

(***************************************************************************)
(* State.  callStack, functions and heap belong to the Interpreter object  *)
(* and the JavaScript heap; the rest is kept per handle.  lexer is the     *)
(* Lexer object of a tokenize() call, parser the Parser object made from   *)
(* its tokens, calc one evaluate() call on an expression and driver the    *)
(* state of the App component that drives a generator.                     *)
(***************************************************************************)
VARIABLES callStack, functions, heap, prog, status, ctl, sent, result, events, execs, lexer,
          parser, calc, driver

vars == <<callStack, functions, heap, prog, status, ctl, sent, result, events, execs, lexer,
         parser, calc, driver>>

Handles == {1, 2}

Machine(h) ==
    [prog |-> prog[h], cs |-> callStack, heap |-> heap, fns |-> functions, ctl |-> ctl[h],
     status |-> status[h], sent |-> sent[h], result |-> result[h], events |-> events[h],
     execs |-> execs[h]]

Install(h, m) ==
    /\ callStack' = m.cs
    /\ heap' = m.heap
    /\ functions' = m.fns
    /\ ctl' = [ctl EXCEPT ![h] = m.ctl]
    /\ status' = [status EXCEPT ![h] = m.status]
    /\ sent' = [sent EXCEPT ![h] = m.sent]
    /\ result' = [result EXCEPT ![h] = m.result]
    /\ events' = [events EXCEPT ![h] = m.events]
    /\ execs' = [execs EXCEPT ![h] = m.execs]
    /\ UNCHANGED <<prog, lexer, parser, calc, driver>>

\* no Interpreter has run yet
InterpreterInit ==
    /\ callStack = <<>>
    /\ functions = EmptyMap
    /\ heap = <<>>
    /\ prog = [h \in Handles |-> HelloProgram]
    /\ status = [h \in Handles |-> "none"]
    /\ ctl = [h \in Handles |-> <<>>]
    /\ sent = [h \in Handles |-> UndefV]
    /\ result = [h \in Handles |-> "none"]
    /\ events = [h \in Handles |-> <<>>]
    /\ execs = [h \in Handles |-> 0]

\* the interpreter runs on an AST that is there: no source is being tokenized
Init ==
    /\ InterpreterInit
    /\ lexer = NewLexer(<<>>) /\ parser = IdleParser /\ calc = IdleCalc /\ driver = IdleDriver

\* interpreter.execute(ast): the generator object is made, its body has not started
Execute(h) ==
    /\ status[h] = "none"
    /\ \E p \in Programs :
          /\ prog' = [prog EXCEPT ![h] = p]
          /\ status' = [status EXCEPT ![h] = "suspendedStart"]
          /\ ctl' = [ctl EXCEPT ![h] = <<ExecuteFrame("start")>>]
    /\ UNCHANGED <<callStack, functions, heap, sent, result, events, execs, lexer, parser, calc, driver>>

NoneExecuting == \A g \in Handles : status[g] \notin {"executing", "hung"}

\* handle.next(reply) on a suspended generator: it starts running
Advance(h) ==
    /\ status[h] \in {"suspendedStart", "suspendedYield"}
    /\ NoneExecuting
    /\ Len(events[h]) < MaxEvents
    /\ \E reply \in Replies : sent' = [sent EXCEPT ![h] = reply]
    /\ status' = [status EXCEPT ![h] = "executing"]
    /\ result' = [result EXCEPT ![h] = "pending"]
    /\ UNCHANGED <<callStack, functions, heap, prog, ctl, events, execs, lexer, parser, calc, driver>>

\* handle.next(reply) on a finished generator returns { done: true }
AdvanceClosed(h) ==
    /\ status[h] = "closed"
    /\ NoneExecuting
    /\ result' = [result EXCEPT ![h] = "done"]
    /\ UNCHANGED <<callStack, functions, heap, prog, status, ctl, sent, events, execs, lexer, parser, calc, driver>>

Running(h) == status[h] = "executing"

Start(h) ==
    Running(h) /\ AtFrame(Machine(h), "execute", "start") /\ Install(h, executeStart(Machine(h)))
EnterBody(h) ==
    Running(h) /\ AtFrame(Machine(h), "execute", "started") /\ Install(h, executeBody(Machine(h)))
Finish(h) ==
    /\ Running(h)
    /\ AtFrame(Machine(h), "execute", "body") \/ AtFrame(Machine(h), "execute", "caught")
    /\ Install(h, executeEnd(Machine(h)))
NextStatement(h) ==
    Running(h) /\ ctl[h] # <<>> /\ Top(Machine(h)).k = "block"
    /\ Install(h, executeBlock(Machine(h)))
DoWrite(h) ==
    /\ Running(h)
    /\ AtStmt(Machine(h), "IO", "step") /\ Top(Machine(h)).node.type = "Write"
    /\ Install(h, executeWrite(Machine(h)))
DoRead(h) ==
    Running(h) /\ AtRead(Machine(h), "step") /\ Install(h, executeRead(Machine(h)))
ReadArg(h) ==
    Running(h) /\ AtRead(Machine(h), "readarg") /\ Install(h, readArg(Machine(h)))
ReadReply(h) ==
    Running(h) /\ AtRead(Machine(h), "readwait") /\ Install(h, readReply(Machine(h)))
DoAssignment(h) ==
    Running(h) /\ AtStmt(Machine(h), "Assignment", "step")
    /\ Install(h, executeAssignment(Machine(h)))
DoIf(h) ==
    Running(h) /\ AtStmt(Machine(h), "If", "step") /\ Install(h, executeIf(Machine(h)))
DoWhile(h) ==
    Running(h) /\ AtStmt(Machine(h), "While", "step") /\ Install(h, executeWhile(Machine(h)))
WhileTest(h) ==
    Running(h) /\ AtStmt(Machine(h), "While", "while") /\ Install(h, whileTest(Machine(h)))
DoFor(h) ==
    Running(h) /\ AtStmt(Machine(h), "For", "step") /\ Install(h, executeFor(Machine(h)))
ForTest(h) ==
    Running(h) /\ AtStmt(Machine(h), "For", "fortest") /\ Install(h, forTest(Machine(h)))
ForIncrement(h) ==
    Running(h) /\ AtStmt(Machine(h), "For", "forinc") /\ Install(h, forIncrement(Machine(h)))
DoCall(h) ==
    Running(h) /\ AtStmt(Machine(h), "Call", "step") /\ Install(h, executeCall(Machine(h)))
CallReturn(h) ==
    Running(h) /\ AtFrame(Machine(h), "call", "body") /\ Install(h, callReturn(Machine(h)))
DoReturn(h) ==
    Running(h) /\ AtStmt(Machine(h), "Return", "step") /\ Install(h, executeReturn(Machine(h)))
StatementEnd(h) ==
    /\ Running(h)
    /\ ctl[h] # <<>> /\ Top(Machine(h)).k = "stmt" /\ Top(Machine(h)).pc = "break"
    /\ Install(h, statementEnd(Machine(h)))

HandleStep(h) ==
    \/ Execute(h)
    \/ Advance(h)
    \/ AdvanceClosed(h)
    \/ Start(h)
    \/ EnterBody(h)
    \/ Finish(h)
    \/ NextStatement(h)
    \/ DoWrite(h)
    \/ DoRead(h)
    \/ ReadArg(h)
    \/ ReadReply(h)
    \/ DoAssignment(h)
    \/ DoIf(h)
    \/ DoWhile(h)
    \/ WhileTest(h)
    \/ DoFor(h)
    \/ ForTest(h)
    \/ ForIncrement(h)
    \/ DoCall(h)
    \/ CallReturn(h)
    \/ DoReturn(h)
    \/ StatementEnd(h)

\* one Interpreter object running one program, as the host creates them
Next == HandleStep(1)

Spec == Init /\ [][Next]_vars

(***************************************************************************)
(* Properties of the event sequence of a handle.                           *)
(***************************************************************************)
EventTypes(evs) == [i \in 1..Len(evs) |-> evs[i].type]
StepCount(evs) == Cardinality({i \in 1..Len(evs) : evs[i].type = "step"})
Last(evs) == evs[Len(evs)]
\* a statement whose Step was yielded and whose switch has not been entered yet
Pending(h) == IF AtFrame(Machine(h), "stmt", "step") THEN 1 ELSE 0
\* the handle is suspended on a Step whose line is that of the statement about to run
AtStatementHeader(h) ==
    /\ AtFrame(Machine(h), "stmt", "step")
    /\ Top(Machine(h)).node.line = Last(events[h]).line

\* C1 (as the code has it): the first event of a run is a Step at the line of the
\* program header, emitted before any statement; every later Step reports the header
\* line of the statement about to execute; the number of Step events is one more than
\* the number of statement executions; and the program whose body is a single Write
\* on line 2 yields Step(1, {}), Step(2, {}), Output, Done.
C1_StepCorrespondence ==
    events[1] # <<>> =>
        /\ events[1][1].type = "step" /\ events[1][1].line = prog[1].line
        /\ StepCount(events[1]) = 1 + execs[1] + Pending(1)
        /\ (status[1] = "suspendedYield" /\ Last(events[1]).type = "step" /\ Len(events[1]) > 1)
              => AtStatementHeader(1)
        /\ (prog[1] = HelloProgram /\ status[1] = "closed")
              => /\ EventTypes(events[1]) = <<"step", "step", "output">>
                 /\ events[1][1].line = 1 /\ events[1][1].variables = EmptyMap
                 /\ events[1][2].line = 2 /\ events[1][2].variables = EmptyMap

\* a run of the Loops program to its end: 8 statement executions, the bodies of the
\* While and of the For twice each
C1_Witness ==
    /\ prog[1] = LoopsProgram /\ status[1] = "closed"
    /\ execs[1] = 8 /\ StepCount(events[1]) = 9

\* C1 as stated: every Step reports the header line of a statement about to execute,
\* there are as many Steps as statement executions, and the single-Write program
\* yields Step(2, {}), Output, Done.
C1_AsStated ==
    /\ StepCount(events[1]) = execs[1] + Pending(1)
    /\ (status[1] = "suspendedYield" /\ Last(events[1]).type = "step") => AtStatementHeader(1)
    /\ (prog[1] = HelloProgram /\ status[1] = "closed")
          => /\ EventTypes(events[1]) = <<"step", "output">>
             /\ events[1][1].line = 2

\* what the snapshot delivered with Step event e shows now for name
ShownNow(e, name) == View(heap, e.variables[name].value)

\* C2: the variable map delivered with a Step event keeps showing, for every name,
\* the value it showed when the event was emitted, whatever the program does later.
C2_SnapshotImmutability ==
    \A i \in 1..Len(events[1]) :
        events[1][i].type = "step" =>
            \A name \in DOMAIN events[1][i].variables :
                ShownNow(events[1][i], name) = events[1][i].seen[name]

\* a retained snapshot holds a parameter bound to the caller's array, and an element
\* of that array has been assigned since
C2_Witness ==
    \E i \in 1..Len(events[1]) :
        /\ events[1][i].type = "step"
        /\ "p" \in DOMAIN events[1][i].variables
        /\ events[1][i].variables["p"].value.t = "ref"
        /\ heap[events[1][i].variables["p"].value.n] # events[1][i].seen["p"].a

\* the names each scope of the call stack holds, bottom first
ScopeNames(cs) == [i \in 1..Len(cs) |-> DOMAIN cs[i].variables]
\* the names declared in the Var section of program p
GlobalNames(p) == {DeclNames(p.variables)[i][2] : i \in 1..Len(DeclNames(p.variables))}
\* the calls made as statements that have not returned yet
Activations(h) == Cardinality(CallFrames(ctl[h]))
Front(seq) == SubSeq(seq, 1, Len(seq) - 1)
\* the step ends in an exception that is not RETURN, or never ends
Aborts(h) ==
    \/ status'[h] = "hung"
    \/ Len(events'[h]) > Len(events[h]) /\ Last(events'[h]).type = "error"

\* a step of the generator that neither aborts nor follows an abort: the call stack is the global scope
\* plus one scope per activation; a step that enters a call only adds a scope, a step
\* that returns from a call only removes the top one, and any other step (calls made
\* from its expressions included) leaves the names of every scope as they were
ScopesKept ==
    (status[1] = "executing" /\ ~Aborts(1) /\ ~AtFrame(Machine(1), "execute", "caught")) =>
        /\ Len(callStack') = 1 + Activations(1)'
        /\ ScopeNames(callStack')[1] = GlobalNames(prog[1])
        /\ ~AtFrame(Machine(1), "execute", "start") =>
              \/ Activations(1)' = Activations(1)
                    /\ ScopeNames(callStack') = ScopeNames(callStack)
              \/ Activations(1)' = Activations(1) + 1
                    /\ Front(ScopeNames(callStack')) = ScopeNames(callStack)
              \/ Activations(1)' = Activations(1) - 1
                    /\ ScopeNames(callStack') = Front(ScopeNames(callStack))

\* C3: after a call that returns normally, made as a statement or from an
\* expression, the caller sees the same variable names and the call stack has the
\* depth it had before the call, with the global scope at the bottom.
C3_ScopeFreshness == [][ScopesKept]_vars

\* the Calls program about to run line 22: the call from the expression of line 20
\* and the procedure call of line 21, with the function call inside it, have returned
C3_Witness ==
    /\ prog[1] = CallsProgram /\ status[1] = "suspendedYield"
    /\ Last(events[1]).type = "step" /\ Last(events[1]).line = 22
    /\ ScopeNames(callStack) = <<{"a", "x"}>>

\* a block with its Read and Write statements taken out, at every depth
RECURSIVE WithoutIO(_)
WithoutIO(stmts) ==
    IF stmts = <<>> THEN <<>>
    ELSE IF Head(stmts).kind = "IO" THEN WithoutIO(Tail(stmts))
    ELSE IF Head(stmts).kind = "If"
    THEN <<[Head(stmts) EXCEPT !.thenBranch = WithoutIO(@), !.elseBranch = WithoutIO(@)]>>
         \o WithoutIO(Tail(stmts))
    ELSE IF Head(stmts).kind \in {"While", "For"}
    THEN <<[Head(stmts) EXCEPT !.body = WithoutIO(@)]>> \o WithoutIO(Tail(stmts))
    ELSE <<Head(stmts)>> \o WithoutIO(Tail(stmts))
\* the function table with every body free of Read and Write
QuietFunctions(fns) == [name \in DOMAIN fns |-> [fns[name] EXCEPT !.body = WithoutIO(@)]]

\* the events a statement of this kind emits itself once past its Step
OwnEvents(node) ==
    IF node.kind = "IO"
    THEN (IF node.type = "Write" THEN {"output", "error"} ELSE {"input", "error"})
    ELSE {"error"}
\* the generator is inside a statement and its next step runs in that statement; what
\* a call statement does is told apart: its body runs in stepping mode
InStatement(h) ==
    /\ status[h] = "executing"
    /\ ctl[h] # <<>> /\ Top(Machine(h)).k = "stmt"
    /\ ~AtStmt(Machine(h), "Call", "step")

\* C4: a step inside a statement, whatever functions its expressions call, emits at
\* most one event and only one of the statement's own kind (never a Step), and it
\* leaves the state it would leave if the functions' bodies held no Read or Write.
C4_SilentExpressionCalls ==
    InStatement(1) =>
        /\ Len(microStep(Machine(1)).events) <= Len(events[1]) + 1
        /\ Len(microStep(Machine(1)).events) = Len(events[1]) + 1
              => Last(microStep(Machine(1)).events).type \in OwnEvents(Top(Machine(1)).node)
        /\ [microStep(Machine(1)) EXCEPT !.fns = QuietFunctions(@)]
              = microStep([Machine(1) EXCEPT !.fns = QuietFunctions(@)])

\* the Calls program after line 20, x <- twice(3): the function, whose body holds a
\* Write and a Read, has run and given 6, and only Steps have been emitted
C4_Witness ==
    /\ prog[1] = CallsProgram /\ status[1] = "suspendedYield"
    /\ Last(events[1]).type = "step" /\ Last(events[1]).line = 21
    /\ heap[callStack[1].variables["x"]].value = NumV(6)
    /\ EventTypes(events[1]) = <<"step", "step", "step">>

\* C5: a handle emits at most one Error event, nothing is emitted after it, and
\* every advance after it returns Done.
C5_ErrorsTerminal ==
    /\ \A i \in 1..Len(events[1]) : events[1][i].type = "error" => i = Len(events[1])
    /\ (events[1] # <<>> /\ Last(events[1]).type = "error") =>
          /\ status[1] \in {"suspendedYield", "executing", "closed"}
          /\ status[1] = "suspendedYield" => result[1] = "value"
          /\ status[1] = "executing" => ctl[1] = <<ExecuteFrame("caught")>>
          /\ status[1] = "closed" => result[1] = "done"

\* after an Error the handle was advanced and returned Done
C5_Witness ==
    /\ events[1] # <<>> /\ Last(events[1]).type = "error"
    /\ status[1] = "closed" /\ result[1] = "done"

(***************************************************************************)
(* Array accesses out of the declared bounds.                              *)
(***************************************************************************)
\* level l of an access with index values vals is outside dimensions dims
BadLevel(vals, dims, l) ==
    l <= Len(dims) /\ IsInt(vals[l]) /\ (vals[l].n < 0 \/ vals[l].n >= dims[l])
BadLevels(vals, dims) == {l \in 1..Len(vals) : BadLevel(vals, dims, l)}
Lowest(S) == CHOOSE l \in S : \A k \in S : l <= k
\* the error an access with a bad level reports: the index at its first bad level
BoundsError(vals, dims) == IndexError(vals[Lowest(BadLevels(vals, dims))])

\* the array accesses of expression e, those made by called functions left out
RECURSIVE AccessesIn(_)
AccessesIn(e) ==
    CASE e.kind = "ArrayAccess" ->
            {e} \cup UNION {AccessesIn(e.indexes[i]) : i \in 1..Len(e.indexes)}
      [] e.kind = "BinaryOp" -> AccessesIn(e.left) \cup AccessesIn(e.right)
      [] e.kind = "UnaryOp" -> AccessesIn(e.operand)
      [] OTHER -> {}
\* the expressions and the target the next step of a statement frame evaluates; the
\* targets of a Read are not among them
EvaluatedAt(f) ==
    CASE f.node.kind = "Assignment" /\ f.pc = "step" -> {f.node.value, f.node.target}
      [] f.node.kind = "IO" /\ f.node.type = "Write" /\ f.pc = "step" ->
            {f.node.args[i] : i \in 1..Len(f.node.args)}
      [] f.node.kind = "If" /\ f.pc = "step" -> {f.node.condition}
      [] f.node.kind = "While" /\ f.pc = "while" -> {f.node.condition}
      [] f.node.kind = "For" /\ f.pc = "step" -> {f.node.start, f.node.end, f.node.step}
      [] f.node.kind = "Return" /\ f.pc = "step" -> {f.node.value}
      [] f.node.kind = "Call" /\ f.pc = "step" ->
            {f.node.args[i] : i \in 1..Len(f.node.args)}
      [] OTHER -> {}
\* access acc, made in the state of machine m, is to a declared array with an index
\* outside its declared dimensions
BadAccess(m, acc) ==
    /\ getVariable(m.cs, acc.name).found
    /\ m.heap[getVariable(m.cs, acc.name).ref].type = "Array"
    /\ ~Failed(EvAll(StateOf(m), acc.indexes))
    /\ BadLevels(EvAll(StateOf(m), acc.indexes).vals,
                 m.heap[getVariable(m.cs, acc.name).ref].dims) # {}
AccessError(m, acc) ==
    BoundsError(EvAll(StateOf(m), acc.indexes).vals,
                m.heap[getVariable(m.cs, acc.name).ref].dims)
BadAccesses(m) ==
    {acc \in UNION {AccessesIn(e) : e \in EvaluatedAt(Top(m))} : BadAccess(m, acc)}
\* what every array variable of the call stack holds
ArrayView(m) ==
    [i \in 1..Len(m.cs) |->
        [name \in DOMAIN m.cs[i].variables |->
            IF m.heap[m.cs[i].variables[name]].type = "Array"
            THEN View(m.heap, m.heap[m.cs[i].variables[name]].value)
            ELSE NullV]]
\* machine after is machine m stopped by the error e: the Error event is the one
\* event added, the next advance ends the run, and no array has changed
StoppedBy(m, after, e) ==
    /\ after.events = Append(m.events, ErrorEvent(e))
    /\ after.status = "suspendedYield"
    /\ after.ctl = <<ExecuteFrame("caught")>>
    /\ ArrayView(after) = ArrayView(m)
InFrame(h) == status[h] = "executing" /\ ctl[h] # <<>> /\ Top(Machine(h)).k = "stmt"
\* the Read loop is at a target that is an array access out of bounds
AtBadReadTarget(h) ==
    /\ AtRead(Machine(h), "readarg")
    /\ Top(Machine(h)).arg <= Len(Top(Machine(h)).node.args)
    /\ Top(Machine(h)).node.args[Top(Machine(h)).arg].kind = "ArrayAccess"
    /\ BadAccess(Machine(h), Top(Machine(h)).node.args[Top(Machine(h)).arg])
\* the Read loop has the reply for a target that is an array access out of bounds
AtBadReadReply(h) ==
    /\ AtRead(Machine(h), "readwait")
    /\ heap[Top(Machine(h)).target].type = "Array"
    /\ BadLevels(Top(Machine(h)).indexes, heap[Top(Machine(h)).target].dims) # {}

\* C6 (as the code has it): a statement that reads an array element in an expression
\* or assigns to one with an index out of the declared bounds emits, as the next
\* event after its Step, the Error 'Index i out of bounds.', after which the handle is
\* Done, and changes no array.  For a Read target out of bounds the Input event comes
\* first; the Error follows the reply, it is the bounds error when the reply parses,
\* and no array is changed.
C6_ArrayBounds ==
    /\ (InFrame(1) /\ BadAccesses(Machine(1)) # {}) =>
          \E acc \in BadAccesses(Machine(1)) :
              StoppedBy(Machine(1), microStep(Machine(1)), AccessError(Machine(1), acc))
    /\ (InFrame(1) /\ AtBadReadTarget(1)) =>
          /\ Len(microStep(Machine(1)).events) = Len(events[1]) + 1
          /\ Last(microStep(Machine(1)).events).type = "input"
    /\ (InFrame(1) /\ AtBadReadReply(1)) =>
          /\ Last(microStep(Machine(1)).events).type = "error"
          /\ ArrayView(microStep(Machine(1))) = ArrayView(Machine(1))
          /\ microStep(Machine(1)).ctl = <<ExecuteFrame("caught")>>
          /\ parseInput(Top(Machine(1)).typeToMatch, sent[1]).err = NoErr =>
                StoppedBy(Machine(1), microStep(Machine(1)),
                          BoundsError(Top(Machine(1)).indexes,
                                      heap[Top(Machine(1)).target].dims))

\* the Bounds program stopped by 'Index 2 out of bounds.' at g[1][i] <- 7 of line 16
C6_Witness ==
    /\ prog[1] = BoundsProgram /\ status[1] = "suspendedYield"
    /\ Last(events[1]) = ErrorEvent(IndexError(NumV(2)))
    /\ events[1][Len(events[1]) - 1].type = "step"
    /\ events[1][Len(events[1]) - 1].line = 16

\* C6 as stated: the same for a Read target, the Error being the next event after
\* the Step of the Read.
C6_AsStated ==
    /\ (InFrame(1) /\ BadAccesses(Machine(1)) # {}) =>
          \E acc \in BadAccesses(Machine(1)) :
              StoppedBy(Machine(1), microStep(Machine(1)), AccessError(Machine(1), acc))
    /\ (InFrame(1) /\ AtBadReadTarget(1) /\ Top(Machine(1)).arg = 1) =>
          StoppedBy(Machine(1), microStep(Machine(1)),
                    AccessError(Machine(1), Top(Machine(1)).node.args[1]))

\* the generator is about to run a Return of the main body whose value evaluates
AtMainReturn(h) ==
    /\ status[h] = "executing"
    /\ AtStmt(Machine(h), "Return", "step")
    /\ CallFrames(ctl[h]) = {}
    /\ ~Failed(Ev(StateOf(Machine(h)), Top(Machine(h)).node.value))

\* C7 (as the code has it): a Return executed in the main body ends the run at once:
\* the handle is Done, no Error event and no other event is emitted, and the
\* statements after the Return are not executed.
C7_ReturnInMain ==
    AtMainReturn(1) =>
        /\ microStep(Machine(1)).status = "closed"
        /\ microStep(Machine(1)).result = "done"
        /\ microStep(Machine(1)).events = events[1]

\* the Early program ended by the Return of line 6: its last event is the Step of
\* that line
C7_Witness ==
    /\ prog[1] = EarlyProgram /\ status[1] = "closed" /\ result[1] = "done"
    /\ Last(events[1]).type = "step" /\ Last(events[1]).line = 6

\* C7 as stated: a Return executed in the main body makes the handle emit an Error
\* event, after which it is Done.
C7_AsStated ==
    AtMainReturn(1) =>
        /\ Len(microStep(Machine(1)).events) = Len(events[1]) + 1
        /\ Last(microStep(Machine(1)).events).type = "error"
        /\ microStep(Machine(1)).ctl = <<ExecuteFrame("caught")>>

(***************************************************************************)
(* The Read protocol.                                                      *)
(***************************************************************************)
\* the type an Input for target arg names: the normalised declared type of the
\* target's cell, the element type when the cell is an array
DeclaredType(m, arg) ==
    IF m.heap[getVariable(m.cs, arg.name).ref].type = "Array"
    THEN normalizeType(m.heap[getVariable(m.cs, arg.name).ref].arrayType)
    ELSE m.heap[getVariable(m.cs, arg.name).ref].type
\* how many Inputs the Read on top of the generator stack has emitted
InputsSent(f) == IF f.pc = "readwait" THEN f.arg ELSE f.arg - 1
InRead(h) ==
    /\ status[h] \in {"executing", "suspendedYield"}
    /\ ctl[h] # <<>> /\ Top(Machine(h)).k = "stmt"
    /\ Top(Machine(h)).node.kind = "IO" /\ Top(Machine(h)).node.type = "Read"
    /\ Top(Machine(h)).pc \in {"readarg", "readwait"}
\* the value the target of the Read frame f holds in machine m
TargetValue(m, f) ==
    IF m.heap[f.target].type = "Array"
    THEN getArrayValue(m.heap, m.heap[f.target].value, f.indexes).val
    ELSE m.heap[f.target].value
\* the reply to the Input the Read waits on parses and its target exists
ReplyStorable(h) ==
    /\ status[h] = "executing" /\ AtRead(Machine(h), "readwait")
    /\ parseInput(Top(Machine(h)).typeToMatch, sent[h]).err = NoErr
    /\ heap[Top(Machine(h)).target].type = "Array" =>
          /\ Top(Machine(h)).indexes # <<>>
          /\ BadLevels(Top(Machine(h)).indexes, heap[Top(Machine(h)).target].dims) = {}

\* C8: while Read(t1, ..., tk) runs, the events since its Step are the Inputs of its
\* first targets, in order, each naming its target and the normalised declared type;
\* after an Input the handle is suspended in the Read until it is advanced; the value
\* parsed from the reply is stored in the target in a step that emits nothing, before
\* the next Input; and the Read ends after k Inputs.
C8_ReadProtocol ==
    /\ InRead(1) =>
          /\ InputsSent(Top(Machine(1))) <= Len(Top(Machine(1)).node.args)
          /\ Len(events[1]) > InputsSent(Top(Machine(1)))
          /\ events[1][Len(events[1]) - InputsSent(Top(Machine(1)))].type = "step"
          /\ events[1][Len(events[1]) - InputsSent(Top(Machine(1)))].line
                = Top(Machine(1)).node.line
          /\ \A j \in 1..InputsSent(Top(Machine(1))) :
                events[1][Len(events[1]) - InputsSent(Top(Machine(1))) + j]
                   = InputEvent(Top(Machine(1)).node.args[j].name,
                                DeclaredType(Machine(1), Top(Machine(1)).node.args[j]))
    /\ (status[1] = "suspendedYield" /\ Last(events[1]).type = "input") =>
          /\ InRead(1) /\ Top(Machine(1)).pc = "readwait"
          /\ result[1] = "value" /\ sent[1] = UndefV
    /\ ReplyStorable(1) =>
          /\ microStep(Machine(1)).events = events[1]
          /\ microStep(Machine(1)).status = "executing"
          /\ Top(microStep(Machine(1))).pc = "readarg"
          /\ Top(microStep(Machine(1))).arg = Top(Machine(1)).arg + 1
          /\ TargetValue(microStep(Machine(1)), Top(Machine(1)))
                = parseInput(Top(Machine(1)).typeToMatch, sent[1]).val

\* Read(s, v[1]) of the Texts program done, replies "abc" and "2": two Inputs after
\* its Step, s holds the text and v[1] the number
C8_Witness ==
    /\ prog[1] = TextsProgram /\ status[1] = "executing"
    /\ AtRead(Machine(1), "readarg") /\ Top(Machine(1)).arg = 3
    /\ EventTypes(events[1]) = <<"step", "step", "input", "input">>
    /\ events[1][4] = InputEvent("v", "Real")
    /\ heap[callStack[1].variables["s"]].value = StrV(<<"a", "b", "c">>)
    /\ View(heap, heap[callStack[1].variables["v"]].value) = ArrV(<<NumV(0), NumV(2)>>)

\* an optionally signed integer or decimal numeral
IsNumeral(chars) ==
    /\ DigitPrefix(Drop(chars, SignLen(chars))) # <<>>
    /\ NumberLen(chars) = Len(chars)
    /\ chars[Len(chars)] # "."
\* the text of a reply; no reply is the empty text
ReplyText(reply) == IF reply.t = "str" THEN reply.s ELSE <<>>
\* the reply being served is to an Input for a target of type varType
ServingReply(h, varType) ==
    /\ status[h] = "executing" /\ AtRead(Machine(h), "readwait")
    /\ Top(Machine(h)).typeToMatch = varType

\* C9: a reply to an Input for a numeric target that is not an optionally signed
\* integer or decimal numeral, and a reply to an Input for a Boolean target that is
\* neither 'true' nor 'false' in any case, yield an Error event, the handle is then
\* Done and the target is unchanged.
C9_ReadParseFailure ==
    /\ (ServingReply(1, "Real") /\ ~IsNumeral(ReplyText(sent[1]))) =>
          /\ Len(microStep(Machine(1)).events) = Len(events[1]) + 1
          /\ Last(microStep(Machine(1)).events).type = "error"
          /\ microStep(Machine(1)).ctl = <<ExecuteFrame("caught")>>
          /\ microStep(Machine(1)).heap = heap
    /\ (ServingReply(1, "Boolean")
        /\ toLowerCase(ReplyText(sent[1])) \notin {<<"t", "r", "u", "e">>,
                                                   <<"f", "a", "l", "s", "e">>}) =>
          /\ Len(microStep(Machine(1)).events) = Len(events[1]) + 1
          /\ Last(microStep(Machine(1)).events).type = "error"

\* Read(n, b) of the Inputs program done after the replies "12abc" and "abc": n
\* holds 12 and b holds false, and no Error was emitted
C9_Witness ==
    /\ prog[1] = InputsProgram /\ status[1] = "executing"
    /\ AtRead(Machine(1), "readarg") /\ Top(Machine(1)).arg = 3
    /\ EventTypes(events[1]) = <<"step", "step", "input", "input">>
    /\ heap[callStack[1].variables["n"]].value = NumV(12)
    /\ heap[callStack[1].variables["b"]].value = BoolV(FALSE)

(***************************************************************************)
(* Replies.                                                                *)
(***************************************************************************)
\* next(reply) on machine m
AdvanceWith(m, reply) == [m EXCEPT !.status = "executing", !.sent = reply, !.result = "pending"]
\* the generator run until it yields, returns or hangs, for at most n steps
RECURSIVE RunToYield(_, _)
RunToYield(m, n) ==
    IF m.status # "executing" \/ n = 0 THEN m ELSE RunToYield(microStep(m), n - 1)
\* what next(reply) returns and leaves behind
NextResult(m, reply) == [RunToYield(AdvanceWith(m, reply), MaxRunSteps) EXCEPT !.sent = UndefV]
\* the handle is suspended and its previous event, if there is one, is not an Input
SuspendedNotOnInput(h) ==
    /\ status[h] \in {"suspendedStart", "suspendedYield"}
    /\ events[h] # <<>> => Last(events[h]).type \in {"step", "output"}

\* C10: a handle that has not been advanced yet, or whose previous event was a Step
\* or an Output, gives the same next event and the same state whatever reply it is
\* advanced with.
C10_ReplyIgnored ==
    SuspendedNotOnInput(1) =>
        \A reply \in Replies :
            /\ NextResult(Machine(1), reply) = NextResult(Machine(1), UndefV)
            /\ NextResult(Machine(1), reply).status # "executing"

\* the Inputs program advanced with the reply "abc" after the Step of its Read,
\* which went on to ask for its first target
C10_Witness ==
    /\ prog[1] = InputsProgram /\ status[1] = "executing"
    /\ sent[1] = StrV(<<"a", "b", "c">>)
    /\ AtRead(Machine(1), "readarg") /\ Top(Machine(1)).arg = 1
    /\ Last(events[1]).type = "step"

(***************************************************************************)
(* tokenize() as a state machine: one action per turn of its loop.         *)
(***************************************************************************)
interpreterVars == <<callStack, functions, heap, prog, status, ctl, sent, result, events, execs>>

\* new Lexer(source), for any source
LexInit ==
    /\ InterpreterInit /\ parser = IdleParser /\ calc = IdleCalc /\ driver = IdleDriver
    /\ \E source \in Sources : lexer = NewLexer(source)

InLoop == lexer.status = "scanning" /\ lexer.pos < Len(lexer.source)

SkipWhitespace ==
    /\ InLoop /\ Branch(lexer) = "whitespace"
    /\ lexer' = advance(lexer)
    /\ UNCHANGED <<interpreterVars, parser, calc, driver>>
SkipBraceComment ==
    /\ InLoop /\ Branch(lexer) = "brace"
    /\ lexer' = lexBraceComment(lexer)
    /\ UNCHANGED <<interpreterVars, parser, calc, driver>>
SkipLineComment ==
    /\ InLoop /\ Branch(lexer) = "line"
    /\ lexer' = lexLineComment(lexer)
    /\ UNCHANGED <<interpreterVars, parser, calc, driver>>
LexNumber ==
    /\ InLoop /\ Branch(lexer) = "number"
    /\ lexer' = lexNumber(lexer)
    /\ UNCHANGED <<interpreterVars, parser, calc, driver>>
LexString ==
    /\ InLoop /\ Branch(lexer) = "string"
    /\ lexer' = lexString(lexer)
    /\ UNCHANGED <<interpreterVars, parser, calc, driver>>
LexWord ==
    /\ InLoop /\ Branch(lexer) = "word"
    /\ lexer' = lexWord(lexer)
    /\ UNCHANGED <<interpreterVars, parser, calc, driver>>
LexOperator ==
    /\ InLoop /\ Branch(lexer) = "operator"
    /\ lexer' = lexOperator(lexer)
    /\ UNCHANGED <<interpreterVars, parser, calc, driver>>
LexEnd ==
    /\ lexer.status = "scanning" /\ lexer.pos >= Len(lexer.source)
    /\ lexer' = lexEnd(lexer)
    /\ UNCHANGED <<interpreterVars, parser, calc, driver>>

LexNext ==
    \/ SkipWhitespace
    \/ SkipBraceComment
    \/ SkipLineComment
    \/ LexNumber
    \/ LexString
    \/ LexWord
    \/ LexOperator
    \/ LexEnd

LexSpec == LexInit /\ [][LexNext]_vars

(***************************************************************************)
(* Properties of tokenize().                                               *)
(***************************************************************************)
TokenTypes(toks) == [i \in 1..Len(toks) |-> toks[i].type]
TokenLines(toks) == [i \in 1..Len(toks) |-> toks[i].line]
\* the token types of keywords, type words and word operators
KeywordTypes == {keywords[w] : w \in DOMAIN keywords}
\* the positions of source text (from 1) that tokens of these types cover
PositionsOf(toks, types) ==
    UNION {(toks[i].at + 1)..(toks[i].at + Len(toks[i].value)) :
              i \in {j \in 1..Len(toks) : toks[j].type \in types}}
\* the letters that differ from c at most in case
CaseVariants(c) ==
    {c} \cup {UpperCase[i] : i \in {j \in 1..26 : LowerCase[j] = LowerChar(c)}}
        \cup {LowerCase[i] : i \in {j \in 1..26 : LowerCase[j] = LowerChar(c)}}
\* the texts that differ from text, from position p on, only in the case of letters at
\* the positions in where
RECURSIVE CaseCopiesFrom(_, _, _)
CaseCopiesFrom(text, where, p) ==
    IF p > Len(text) THEN {<<>>}
    ELSE {<<c>> \o rest :
             c \in (IF p \in where THEN CaseVariants(text[p]) ELSE {text[p]}),
             rest \in CaseCopiesFrom(text, where, p + 1)}
\* the copies of the source just tokenized that differ from it only in the letter case
\* of its keyword occurrences
KeywordCaseCopies ==
    CaseCopiesFrom(lexer.source, PositionsOf(lexer.tokens, KeywordTypes), 1)

\* C11: when tokenize has ended on a source, it ends the same way on every copy that
\* differs only in the letter case of keyword, type-word and word-operator occurrences:
\* the same token types with the same lines (and the same error if it throws); and
\* the value of every identifier token is the source text at its place, verbatim.
C11_KeywordCaseInsensitive ==
    lexer.status # "scanning" =>
        /\ \A copy \in KeywordCaseCopies :
              /\ tokenize(copy).status = lexer.status
              /\ tokenize(copy).error = lexer.error
              /\ TokenTypes(tokenize(copy).tokens) = TokenTypes(lexer.tokens)
              /\ TokenLines(tokenize(copy).tokens) = TokenLines(lexer.tokens)
        /\ \A i \in 1..Len(lexer.tokens) :
              lexer.tokens[i].type = "IDENTIFIER" =>
                  lexer.tokens[i].value
                     = SubSeq(lexer.source, lexer.tokens[i].at + 1,
                              lexer.tokens[i].at + Len(lexer.tokens[i].value))

\* the source iF, newline, F tokenized: the keyword If, which has four spellings, and
\* the identifier F, kept in upper case
C11_Witness ==
    /\ lexer.status = "returned"
    /\ lexer.source = <<"i", "F", "\n", "F">>
    /\ TokenTypes(lexer.tokens) = <<"IF", "IDENTIFIER", "EOF">>
    /\ TokenLines(lexer.tokens) = <<1, 2, 2>>
    /\ lexer.tokens[2].value = <<"F">>
    /\ Cardinality(KeywordCaseCopies) = 4

\* the loop of tokenize is at the opening quote of a string that no later quote of
\* the same kind closes
AtUnterminatedString ==
    /\ InLoop /\ Branch(lexer) = "string"
    /\ \A p \in (lexer.pos + 2)..Len(lexer.source) : lexer.source[p] # peek(lexer)

\* C12: a string literal whose opening quote has no closing quote before the end of
\* the source makes tokenize fail with an error that carries the line of the opening
\* quote, and no token list is returned.
C12_UnterminatedString ==
    AtUnterminatedString =>
        /\ lexStep(lexer).status = "thrown"
        /\ \E k \in 1..Len(lexStep(lexer).error.info) :
              lexStep(lexer).error.info[k] = lexer.line

\* tokenize has returned a token list for the source i, newline, "f whose string is
\* not closed: the string token holds the rest of the source
C12_Witness ==
    /\ lexer.status = "returned"
    /\ lexer.source = <<"i", "\n", "\"", "f">>
    /\ TokenTypes(lexer.tokens) = <<"IDENTIFIER", "STRING_LITERAL", "EOF">>
    /\ lexer.tokens[2].value = <<"f">>
    /\ lexer.error = NoErr

(***************************************************************************)
(* The lexer followed by the expression parser: once tokenize() has        *)
(* returned, new Parser(tokens) parses an expression from its tokens.      *)
(***************************************************************************)
ParseExpression ==
    /\ lexer.status = "returned"
    /\ parser.status = "idle"
    /\ parser' = ParserAfter(parseExpression(NewParser(lexer.tokens)))
    /\ UNCHANGED <<interpreterVars, lexer, calc, driver>>

ExprNext == LexNext \/ ParseExpression

ExprSpec == LexInit /\ [][ExprNext]_vars

\* the 1-based line of the character at 0-based position at of the source
LineOfPosition(source, at) ==
    1 + Cardinality({p \in 1..at : p <= Len(source) /\ source[p] = "\n"})

\* a node and the nodes under it
RECURSIVE NodesOf(_)
NodesOf(node) ==
    {node} \cup
    (CASE node.kind = "BinaryOp" -> NodesOf(node.left) \cup NodesOf(node.right)
       [] node.kind = "UnaryOp" -> NodesOf(node.operand)
       [] node.kind = "ArrayAccess" ->
            UNION {NodesOf(node.indexes[i]) : i \in 1..Len(node.indexes)}
       [] node.kind = "Call" -> UNION {NodesOf(node.args[i]) : i \in 1..Len(node.args)}
       [] OTHER -> {})

\* C13: every token carries the 1-based source line of its first character, and
\* every node of a parsed expression carries the source line of the first
\* character of its first token.
C13_SourceLinePreserved ==
    /\ \A i \in 1..Len(lexer.tokens) :
          lexer.tokens[i].line = LineOfPosition(lexer.source, lexer.tokens[i].at)
    /\ parser.status = "parsed" =>
          \A node \in NodesOf(parser.node) :
              node.line = LineOfPosition(lexer.source, lexer.tokens[node.from].at)

\* C13: the expression 1 on line 1 and < 1 on line 2 is parsed into a BinaryOp
\* node whose first token is on line 1 and whose line is 2.
C13_Witness ==
    /\ lexer.source = <<"1", "\n", "<", "1">>
    /\ parser.status = "parsed"
    /\ parser.node.kind = "BinaryOp"
    /\ parser.node.from = 1
    /\ lexer.tokens[1].line = 1
    /\ parser.node.line = 2

\* C13: a string literal opened on line 1 and closed on line 2 is a token of
\* line 2.
C13_StringWitness ==
    /\ lexer.source = <<"\"", "\n", "\"">>
    /\ lexer.status = "returned"
    /\ lexer.tokens[1].type = "STRING_LITERAL"
    /\ lexer.tokens[1].at = 0
    /\ lexer.tokens[1].line = 2

\* C14: a variable declared Integer or Real never holds a String.
C14_StrictTyping ==
    \A i \in 1..Len(callStack) : \A name \in DOMAIN callStack[i].variables :
        heap[callStack[i].variables[name]].type = "Real" =>
            heap[callStack[i].variables[name]].value.t # "str"

\* C14: the program Typed has run to its end without an error; its variable n,
\* declared Integer, holds the String "a" that the assignment of line 6 stored in
\* the Integer t of Label and that the assignment of line 10 stored in n.
C14_Witness ==
    /\ prog[1] = TypedProgram
    /\ status[1] = "closed"
    /\ \A i \in 1..Len(events[1]) : events[1][i].type # "error"
    /\ heap[getVariable(callStack, "n").ref].type = "Real"
    /\ heap[getVariable(callStack, "n").ref].value = StrV(<<"a">>)

(***************************************************************************)
(* Two handles of one Interpreter object: the host calls execute(ast)      *)
(* twice on the same interpreter with the program Pair, and answers every  *)
(* next() with the text 1.  A next() runs to its yield before another      *)
(* next() is called; the host chooses which handle it advances.            *)
(***************************************************************************)
PairReply == StrV(<<"1">>)

\* interpreter.execute(ast) with the AST of one of the programs
ExecuteOf(h, programs) ==
    /\ status[h] = "none"
    /\ \E p \in programs :
          /\ prog' = [prog EXCEPT ![h] = p]
          /\ status' = [status EXCEPT ![h] = "suspendedStart"]
          /\ ctl' = [ctl EXCEPT ![h] = <<ExecuteFrame("start")>>]
    /\ UNCHANGED <<callStack, functions, heap, sent, result, events, execs, lexer, parser, calc, driver>>

PairExecute(h) == ExecuteOf(h, {PairProgram})

\* a step of handle h after execute(): a next() of the host, with the reply 1, or a
\* step of the running generator
PairStep(h) ==
    /\ status[h] # "none"
    /\ HandleStep(h)
    /\ status[h] \in {"suspendedStart", "suspendedYield"} => sent'[h] = PairReply

PairNext == \E h \in Handles : PairExecute(h) \/ PairStep(h)

PairSpec == Init /\ [][PairNext]_vars

\* the generator of execute(p) on an Interpreter that has run nothing
FreshMachine(p) ==
    [prog |-> p, cs |-> <<>>, heap |-> <<>>, fns |-> EmptyMap, ctl |-> <<ExecuteFrame("start")>>,
     status |-> "suspendedStart", sent |-> UndefV, result |-> "none", events |-> <<>>,
     execs |-> 0]
\* the handle advanced with reply until it is done or has emitted n events
RECURSIVE Drain(_, _, _)
Drain(m, reply, n) ==
    IF m.status \notin {"suspendedStart", "suspendedYield"} \/ Len(m.events) >= n THEN m
    ELSE Drain(NextResult(m, reply), reply, n)
\* the events of a handle of program p that runs alone
AloneEvents(p) == Drain(FreshMachine(p), PairReply, MaxEvents).events
IsPrefix(front, whole) ==
    Len(front) <= Len(whole) /\ front = SubSeq(whole, 1, Len(front))

\* C15: whatever the interleaving of the next() calls on two handles of one
\* Interpreter, each handle emits the events it emits when it runs alone.
C15_HandleIsolation ==
    \A h \in Handles : status[h] # "none" => IsPrefix(events[h], AloneEvents(prog[h]))

\* C15: handle 1 was started, then handle 2 was started, which replaced the
\* scopes handle 1 was using; handle 1 then read 1 into n and its While loop
\* raised n to 2, and the Read of handle 2 is emitted with n = 2 in its snapshot,
\* whereas a handle that runs alone shows n = 0 there.
C15_Witness ==
    /\ prog[1] = PairProgram /\ prog[2] = PairProgram
    /\ Len(events[2]) = 2
    /\ events[2][2].type = "step" /\ events[2][2].line = 9
    /\ events[2][2].variables["n"].value = NumV(2)
    /\ AloneEvents(PairProgram)[2].variables["n"].value = NumV(0)
    /\ Len(events[1]) >= 5

(***************************************************************************)
(* One Interpreter object running one of the loop programs.  Once next()   *)
(* is called the generator runs: in LoopFairSpec a running generator       *)
(* always takes its next step.                                             *)
(***************************************************************************)
LoopExecute == ExecuteOf(1, LoopPrograms)

\* a next() of the host or a step of the running generator
LoopStep == status[1] # "none" /\ HandleStep(1)

\* the step of the generator while a next() is in progress
GeneratorStep == Running(1) /\ \E m \in {microStep(Machine(1))} : Install(1, m)

LoopNext == LoopExecute \/ LoopStep

LoopSpec == Init /\ [][LoopNext]_vars

\* the loop programs that run without input
QuietLoopPrograms == {SpinProgram, ForsProgram}

QuietExecute == ExecuteOf(1, QuietLoopPrograms)

QuietNext == QuietExecute \/ LoopStep

LoopFairSpec == Init /\ [][QuietNext]_vars /\ WF_vars(GeneratorStep)

\* C16: every next() returns: a handle that is running comes to an event or to its
\* end.
C16_AdvanceReturns == (status[1] = "executing") ~> (status[1] # "executing")

\* C16: the generator is at the test of a While loop whose body is empty and whose
\* condition is true; two steps later (the test, the empty block) it is at the
\* same test in the same state, with no event emitted.
C16_Witness ==
    /\ status[1] = "executing"
    /\ AtStmt(Machine(1), "While", "while")
    /\ Top(Machine(1)).node.body = <<>>
    /\ microStep(microStep(Machine(1))) = Machine(1)

\* the generator is about to run executeCall for a call statement, and no function
\* of the program holds a Read or a Write
AtQuietCall(h) ==
    /\ status[h] = "executing"
    /\ AtStmt(Machine(h), "Call", "step")
    /\ QuietFunctions(functions) = functions
\* the call made in stepping mode is over: its body has returned or a Return unwound
\* to it, and its scope is still on the call stack
CallOver(m, depth) == Len(m.ctl) = depth + 1 /\ AtFrame(m, "call", "body")
\* the generator resumed at every event until the call statement entered at stack
\* depth depth is over, an Error is emitted or n steps are done
RECURSIVE DrainCall(_, _, _)
DrainCall(m, depth, n) ==
    IF \/ n = 0
       \/ m.status \in {"closed", "hung"}
       \/ CallOver(m, depth)
       \/ (m.events # <<>> /\ Last(m.events).type = "error")
    THEN m
    ELSE DrainCall(microStep([m EXCEPT !.status = "executing"]), depth, n - 1)
SteppedCall(m) == DrainCall(microStep(m), Len(m.ctl), MaxRunSteps + MaxRunSteps)
SyncCall(m) == executeFunctionSync(StateOf(m), Top(m).node)
\* both executions of the call came to their end without an error
BothReturn(m) ==
    /\ ~Failed(SyncCall(m))
    /\ CallOver(SteppedCall(m), Len(m.ctl))

\* C17: a call of a function free of Read and Write that ends without an error
\* returns the same value and leaves the same scopes and the same variables when it
\* is run by the synchronous executor as when it is run by executeCall and its
\* events are drained.
C17_SyncMatchesStepping ==
    AtQuietCall(1) /\ BothReturn(Machine(1)) =>
        /\ SyncCall(Machine(1)).val = TopScope(SteppedCall(Machine(1))).returnVal
        /\ SyncCall(Machine(1)).st.cs = callReturn(SteppedCall(Machine(1))).cs
        /\ SyncCall(Machine(1)).st.heap = callReturn(SteppedCall(Machine(1))).heap

\* C17: Sum(2) of the program Pure is about to run as a statement; run either way it
\* returns 2 and leaves g = 1 and v = [2, 1].
C17_Witness ==
    /\ prog[1] = PureProgram
    /\ AtQuietCall(1) /\ BothReturn(Machine(1))
    /\ Top(Machine(1)).node.name = NameSum
    /\ SyncCall(Machine(1)).val = NumV(2)
    /\ Len(SteppedCall(Machine(1)).events) = Len(events[1]) + 9
    /\ View(SyncCall(Machine(1)).st.heap,
            SyncCall(Machine(1)).st.heap[getVariable(callStack, "v").ref].value)
       = ArrV(<<NumV(2), NumV(1)>>)
    /\ SyncCall(Machine(1)).st.heap[getVariable(callStack, "g").ref].value = NumV(1)

\* the generator is about to evaluate the condition of a While or the exit test of a
\* For
AtLoopTest(h) ==
    /\ status[h] = "executing"
    /\ AtStmt(Machine(h), "While", "while") \/ AtStmt(Machine(h), "For", "fortest")
\* how many Step events of evs are at this line
StepsAtLine(evs, line) ==
    Cardinality({i \in 1..Len(evs) : evs[i].type = "step" /\ evs[i].line = line})

\* C18: every evaluation of a While condition and every exit test of a For comes
\* right after a Step event at the header line of the loop.
C18_HeaderStepBeforeTest ==
    AtLoopTest(1) =>
        /\ Last(events[1]).type = "step"
        /\ Last(events[1]).line = Top(Machine(1)).node.line

\* C18: the While of line 4 of the program Loops is about to evaluate its condition
\* for the third time (n = 2, after two runs of line 5); one Step event at line 4
\* has been emitted.
C18_Witness ==
    /\ prog[1] = LoopsProgram
    /\ AtLoopTest(1) /\ Top(Machine(1)).node.line = 4
    /\ heap[getVariable(callStack, "n").ref].value = NumV(2)
    /\ StepsAtLine(events[1], 5) = 2
    /\ StepsAtLine(events[1], 4) = 1

\* the frames of the For statements that are past their entry
ForFrames(frames) ==
    {j \in 1..Len(frames) :
        /\ frames[j].k = "stmt" /\ frames[j].node.kind = "For"
        /\ frames[j].pc \in {"fortest", "forinc"}}
\* the values of variable name in the snapshots of the Step events at this line
SeenAtLine(evs, line, name) ==
    {evs[i].variables[name].value :
        i \in {k \in 1..Len(evs) : evs[k].type = "step" /\ evs[k].line = line}}
\* the end and step of a For statement do not change once the statement is entered
BoundsKept ==
    \A j \in ForFrames(ctl[1]) \cap ForFrames(ctl'[1]) :
        ctl'[1][j].node = ctl[1][j].node =>
            /\ ctl'[1][j].end = ctl[1][j].end
            /\ ctl'[1][j].step = ctl[1][j].step
\* the run of the program Fors: the loop of line 6 runs for i = 0 and 1 although its
\* body sets e to 0 and s to 5, the loop of line 10 runs for i = 0 and 2, the body
\* adding 1 to i, and the loop of line 13 (from 1 to 0) never runs its body
ForsRun ==
    prog[1] = ForsProgram /\ status[1] = "closed" =>
        /\ StepsAtLine(events[1], 7) = 2 /\ StepsAtLine(events[1], 8) = 2
        /\ SeenAtLine(events[1], 7, "i") = {NumV(0), NumV(1)}
        /\ StepsAtLine(events[1], 11) = 2
        /\ SeenAtLine(events[1], 11, "i") = {NumV(0), NumV(2)}
        /\ StepsAtLine(events[1], 14) = 0
        /\ \A i \in 1..Len(events[1]) : events[1][i].type = "step"

\* C19: start, end and step of a For are evaluated once, when the statement is
\* entered: the values kept for the exit test never change, assignments of the body
\* to the variables of the end and step expressions do not change the number of
\* iterations, an assignment of the body to the loop variable is what the next exit
\* test sees (with step added), and with start > end and a positive step the body
\* never runs.
C19_ForBoundsFixed == [][BoundsKept]_vars /\ []ForsRun

\* C19: the program Fors has run to its end; the body of line 6-9 ran twice and left
\* e = 0 and s = 5, and the loop of line 13 left i = 1 and c = 0.
C19_Witness ==
    /\ prog[1] = ForsProgram /\ status[1] = "closed"
    /\ StepsAtLine(events[1], 7) = 2
    /\ heap[getVariable(callStack, "e").ref].value = NumV(0)
    /\ heap[getVariable(callStack, "s").ref].value = NumV(5)
    /\ heap[getVariable(callStack, "i").ref].value = NumV(1)
    /\ heap[getVariable(callStack, "c").ref].value = NumV(0)

\* the generator is at the exit test of a For whose step evaluated to 0
AtZeroStepTest(h) ==
    /\ status[h] = "executing"
    /\ AtStmt(Machine(h), "For", "fortest")
    /\ Top(Machine(h)).step = NumV(0)
\* the exit test about to be made leaves the loop
LeavesLoop(m) == Len(microStep(m).ctl) < Len(m.ctl)
\* the value of the loop variable of the For on top of the generator stack
LoopValue(m) == m.heap[Top(m).target].value

\* C20 (as stated): a For whose step evaluated to 0 never leaves the loop at its exit
\* test, whatever start and end are.
C20_ZeroStepNeverExits == AtZeroStepTest(1) => ~LeavesLoop(Machine(1))

\* C20 (as the code has it): a For whose step evaluated to 0 leaves the loop exactly
\* when the loop variable is above end at the exit test; in the program Zero, whose
\* body does not assign i, the statement after the loop (line 8) is reached only
\* with start > end and without the body having run (c = 0), and the body (line 6)
\* runs only with start not above end.
C20_ZeroStepExitsOnlyAboveEnd ==
    /\ AtZeroStepTest(1) =>
          (LeavesLoop(Machine(1)) <=> NumLess(Top(Machine(1)).end, LoopValue(Machine(1))))
    /\ prog[1] = ZeroProgram =>
          \A i \in 1..Len(events[1]) : events[1][i].type = "step" =>
              /\ events[1][i].line = 8 =>
                    /\ NumLess(events[1][i].variables["b"].value,
                               events[1][i].variables["a"].value)
                    /\ events[1][i].variables["c"].value = NumV(0)
              /\ events[1][i].line = 6 =>
                    ~NumLess(events[1][i].variables["b"].value,
                             events[1][i].variables["a"].value)

\* C20: the program Zero was given a = 1 and b = 2; the body of its For with step 0
\* has run 8 times, i is still 1, and the loop is at its exit test again.
C20_Witness ==
    /\ prog[1] = ZeroProgram
    /\ AtZeroStepTest(1) /\ ~LeavesLoop(Machine(1))
    /\ Top(Machine(1)).end = NumV(2)
    /\ LoopValue(Machine(1)) = NumV(1)
    /\ StepsAtLine(events[1], 6) = 8
    /\ heap[getVariable(callStack, "c").ref].value = NumV(8)

\* C20: the program Zero was given a = 1 and b = 0; its For with step 0 was left at
\* the first exit test and the Step of line 8 is emitted with c = 0.
C20_ExitWitness ==
    /\ prog[1] = ZeroProgram /\ events[1] # <<>>
    /\ Last(events[1]).type = "step" /\ Last(events[1]).line = 8
    /\ Last(events[1]).variables["a"].value = NumV(1)
    /\ Last(events[1]).variables["b"].value = NumV(0)
    /\ Last(events[1]).variables["c"].value = NumV(0)

(***************************************************************************)
(* evaluate() on its own: an expression is evaluated in the state the      *)
(* Interpreter has when the program Calc has started.                      *)
(***************************************************************************)
\*  1 Algorithm Calc
\*  2 Var g : Integer
\*  3     v : Array[2] of Integer
\*  4 Function Mark() : Integer
\*  5 Begin
\*  6   g <- 7
\*  7   Return 1
\*  8 EndFunction
\*  9 Function Twice(k : Integer) : Integer
\* 10 Begin
\* 11   g <- 5
\* 12   Return k + k
\* 13 EndFunction
\* 14 Begin
\* 15   g <- 0
\* 16 End
CalcProgram ==
    Program(
        <<VarDecl(<<"g">>, TInteger, <<>>), VarDecl(<<"v">>, TInteger, <<2>>)>>,
        <<FunctionDecl(NameMark, <<>>, <<>>,
            <<Assign(Name("g"), Num(7), 6), ReturnStmt(Num(1), 7)>>),
          FunctionDecl(NameTwice, <<Param("k", TInteger)>>, <<>>,
            <<Assign(Name("g"), Num(5), 11), ReturnStmt(Plus(Id("k"), Id("k")), 12)>>)>>,
        <<Assign(Name("g"), Num(0), 15)>>,
        1)

\* the Interpreter when execute(ast) has emitted its first Step: the globals exist
CalcState == StateOf(Drain(FreshMachine(CalcProgram), UndefV, 1))

MaxOperand == 4
\* the integer n as the parser builds it: a literal, under a unary minus if negative
Signed(n) == IF n < 0 THEN Un("MINUS", Num(0 - n)) ELSE Num(n)
Operands == (0 - MaxOperand)..MaxOperand

\* 1 = 2 and 1 = 1: a false and a true left operand
FalseOperand == Eq(Num(1), Num(2))
TrueOperand == Eq(Num(1), Num(1))
\* v[5] = 0, Mark() = 1 and u = 0: right operands that throw or write g
OutOfBoundsOperand == Eq(Acc("v", <<Num(5)>>), Num(0))
CallOperand == Eq(CallNode(NameMark, <<>>, 15), Num(1))
UndeclaredOperand == Eq(Id("u"), Num(0))

EvalNodes ==
    {Bin(Signed(l), op, Signed(r)) : l \in Operands, r \in Operands, op \in {"DIV", "MOD"}}
    \cup {Bin(l, op, r) : l \in {FalseOperand, TrueOperand},
                          r \in {OutOfBoundsOperand, CallOperand, UndeclaredOperand,
                                 TrueOperand, FalseOperand},
                          op \in {"AND", "OR"}}
    \cup {Id("True"), Id("False"), Id("g")}
    \cup {CallNode(NameMark, args, 15) : args \in {<<>>, <<Num(1)>>}}
    \cup {CallNode(NameTwice, args, 15) : args \in {<<>>, <<Num(2)>>, <<Num(2), Num(3)>>}}

CalcAfter(node, r) ==
    [node |-> node, status |-> IF Failed(r) THEN "thrown" ELSE "returned", value |-> r.val,
     error |-> r.err, after |-> r.st]

EvalInit ==
    /\ InterpreterInit /\ lexer = NewLexer(<<>>) /\ parser = IdleParser /\ driver = IdleDriver
    /\ \E node \in EvalNodes : calc = [IdleCalc EXCEPT !.node = node, !.status = "ready"]

\* this.evaluate(node)
Evaluate ==
    /\ calc.status = "ready"
    /\ calc' = CalcAfter(calc.node, evaluate(CalcState, calc.node))
    /\ UNCHANGED <<interpreterVars, lexer, parser, driver>>

EvalNext == Evaluate

EvalSpec == EvalInit /\ [][EvalNext]_vars

\* the value of the global g in an Interpreter state
GlobalG(st) == st.heap[getVariable(st.cs, "g").ref].value
\* the operand that decides l And r, l Or r on its own
Decides(node) ==
    \/ node.operator = "AND" /\ node.left = FalseOperand
    \/ node.operator = "OR" /\ node.left = TrueOperand
EvaluatedLogic == calc.status # "ready" /\ calc.node.kind = "BinaryOp"
                  /\ calc.node.operator \in {"AND", "OR"}

\* C21: when the left operand decides l And r (l false) or l Or r (l true), the
\* right operand is not evaluated: the expression returns the value of l, throws
\* nothing, and leaves every variable as it was.
C21_ShortCircuit ==
    EvaluatedLogic /\ Decides(calc.node) =>
        /\ calc.status = "returned"
        /\ calc.value = BoolV(calc.node.operator = "OR")
        /\ calc.after = CalcState

\* C21: (1 = 2) And (v[5] = 0) was evaluated and threw "Index 5 out of bounds.".
C21_ThrowWitness ==
    /\ calc.node = Bin(FalseOperand, "AND", OutOfBoundsOperand)
    /\ calc.status = "thrown" /\ calc.error = IndexError(NumV(5))

\* C21: (1 = 1) Or (Mark() = 1) was evaluated to true and Mark has set g to 7.
C21_CallWitness ==
    /\ calc.node = Bin(TrueOperand, "OR", CallOperand)
    /\ calc.status = "returned" /\ calc.value = BoolV(TRUE)
    /\ GlobalG(CalcState) = NumV(0) /\ GlobalG(calc.after) = NumV(7)

\* C22: in a program that declares no variable named True or False, the
\* identifier True evaluates to the boolean true and False to the boolean false,
\* and neither throws.
C22_TrueFalseConstants ==
    calc.status # "ready" /\ calc.node \in {Id("True"), Id("False")} =>
        /\ calc.status = "returned"
        /\ calc.value = BoolV(calc.node = Id("True"))

\* C22: the identifier True was evaluated in the program Calc, whose variables are
\* g and v, and getVariable threw "Variable 'True' not declared.".
C22_Witness ==
    /\ calc.node = Id("True") /\ calc.status = "thrown"
    /\ calc.error = NotDeclared("True")
    /\ ~getVariable(CalcState.cs, "True").found /\ getVariable(CalcState.cs, "g").found

\* the integer q with q <= l / r < q + 1, for r # 0
Floor(l, r) ==
    CHOOSE q \in (0 - MaxOperand)..MaxOperand :
        IF r > 0 THEN q * r <= l /\ l < (q + 1) * r ELSE q * r >= l /\ l > (q + 1) * r
EvaluatedDivMod(op) ==
    /\ calc.status # "ready" /\ calc.node.kind = "BinaryOp" /\ calc.node.operator = op
    /\ calc.node.right # Signed(0)
\* the integer an operand of the evaluated expression was built from
OperandOf(node) == CHOOSE n \in Operands : Signed(n) = node

\* C23: for integers l and r # 0 of either sign, l Div r is floor(l / r) and
\* l Mod r is l - floor(l / r) * r, so that (l Div r) * r + (l Mod r) = l.
C23_FloorDivMod ==
    /\ EvaluatedDivMod("DIV") =>
          /\ calc.status = "returned"
          /\ calc.value = NumV(Floor(OperandOf(calc.node.left), OperandOf(calc.node.right)))
    /\ EvaluatedDivMod("MOD") =>
          /\ calc.status = "returned"
          /\ calc.value =
                NumV(OperandOf(calc.node.left)
                     - Floor(OperandOf(calc.node.left), OperandOf(calc.node.right))
                       * OperandOf(calc.node.right))

\* C23: -3 Mod 2 was evaluated to -1, which has the sign of l; floor(-3 / 2) is -2,
\* and -2 * 2 + -1 is -5, not -3.
C23_Witness ==
    /\ calc.node = Bin(Signed(0 - 3), "MOD", Signed(2))
    /\ calc.status = "returned" /\ calc.value = NumV(0 - 1)
    /\ Floor(0 - 3, 2) = 0 - 2

\* C23: whatever the signs, l Div r is floor(l / r).
C23_DivIsFloor ==
    EvaluatedDivMod("DIV") =>
        /\ calc.status = "returned"
        /\ calc.value = NumV(Floor(OperandOf(calc.node.left), OperandOf(calc.node.right)))

\* the declaration a call names, and whether the call has its number of arguments
Callee(node) == CalcState.fns[toLowerCase(node.name)]
ArityMatches(node) == Len(node.args) = Len(Callee(node).params)
EvaluatedCall == calc.status # "ready" /\ calc.node.kind = "Call"

\* C24: a call inside an expression whose number of arguments differs from the
\* number of parameters throws "'<n>' expects <k> arguments, got <m>.", and no
\* statement of the callee has run.
C24_ArityChecked ==
    EvaluatedCall /\ ~ArityMatches(calc.node) =>
        /\ calc.status = "thrown"
        /\ calc.error = ArityError(calc.node.name, Len(Callee(calc.node).params),
                                   Len(calc.node.args))
        /\ calc.after = CalcState

\* C24: Twice() was evaluated with no argument for its parameter k: the body ran,
\* set g to 5, and returned k + k computed on undefined; nothing was thrown.
C24_Witness ==
    /\ calc.node = CallNode(NameTwice, <<>>, 15)
    /\ calc.status = "returned" /\ calc.value = NaNV
    /\ GlobalG(calc.after) = NumV(5)

\* C24: Mark(1) was evaluated although Mark has no parameter: the body ran and
\* the call returned 1.
C24_ExtraWitness ==
    /\ calc.node = CallNode(NameMark, <<Num(1)>>, 15)
    /\ calc.status = "returned" /\ calc.value = NumV(1)
    /\ GlobalG(calc.after) = NumV(7)

(***************************************************************************)
(* Programs that index a scalar, resolve names through several scopes and  *)
(* return from inside nested statements, run through a handle.             *)
(***************************************************************************)
\* 1 Algorithm Scalar
\* 2 Var n : Integer
\* 3 Begin
\* 4   n <- 4
\* 5   Read(n[1])
\* 6   Write(n)
\* 7 End
ScalarProgram ==
    Program(
        <<VarDecl(<<"n">>, TInteger, <<>>)>>,
        <<>>,
        <<Assign(Name("n"), Num(4), 4),
          ReadStmt(<<Acc("n", <<Num(1)>>)>>, 5),
          WriteStmt(<<Id("n")>>, 6)>>,
        1)

\*  1 Algorithm Poke
\*  2 Var n : Integer
\*  3 Function Put() : Integer
\*  4 Begin
\*  5   n[1] <- 3
\*  6   Return 1
\*  7 EndFunction
\*  8 Begin
\*  9   n <- 4
\* 10   n <- Put()
\* 11   Write(n)
\* 12 End
NamePut == <<"P", "u", "t">>
PokeProgram ==
    Program(
        <<VarDecl(<<"n">>, TInteger, <<>>)>>,
        <<FunctionDecl(NamePut, <<>>, <<>>,
            <<Assign(Acc("n", <<Num(1)>>), Num(3), 5), ReturnStmt(Num(1), 6)>>)>>,
        <<Assign(Name("n"), Num(4), 9),
          Assign(Name("n"), CallNode(NamePut, <<>>, 10), 10),
          WriteStmt(<<Id("n")>>, 11)>>,
        1)

\*  1 Algorithm Scopes
\*  2 Var n, g : Integer
\*  3 Procedure Inner(n : Integer)
\*  4 Begin
\*  5   Read(g)
\*  6   n <- n + g
\*  7   For g <- n To 2 Do
\*  8     u <- g
\*  9   EndFor
\* 10 EndProcedure
\* 11 Function Peek() : Integer
\* 12 Begin
\* 13   g <- g + 10
\* 14   Return n
\* 15 EndFunction
\* 16 Begin
\* 17   n <- 5
\* 18   Inner(1)
\* 19   n <- Peek()
\* 20   Write(n, g)
\* 21 End
NameInner == <<"I", "n", "n", "e", "r">>
NamePeek == <<"P", "e", "e", "k">>
ScopesProgram ==
    Program(
        <<VarDecl(<<"n", "g">>, TInteger, <<>>)>>,
        <<ProcedureDecl(NameInner, <<Param("n", TInteger)>>, <<>>,
            <<ReadStmt(<<Id("g")>>, 5),
              Assign(Name("n"), Plus(Id("n"), Id("g")), 6),
              ForStmt("g", Id("n"), Num(2), <<Assign(Name("u"), Id("g"), 8)>>, 7)>>),
          FunctionDecl(NamePeek, <<>>, <<>>,
            <<Assign(Name("g"), Plus(Id("g"), Num(10)), 13), ReturnStmt(Id("n"), 14)>>)>>,
        <<Assign(Name("n"), Num(5), 17),
          CallNode(NameInner, <<Num(1)>>, 18),
          Assign(Name("n"), CallNode(NamePeek, <<>>, 19), 19),
          WriteStmt(<<Id("n"), Id("g")>>, 20)>>,
        1)

\*  1 Algorithm Nest
\*  2 Var c : Integer
\*  3 Procedure Inner(k : Integer)
\*  4 Var j : Integer
\*  5 Begin
\*  6   For j <- 1 To 3 Do
\*  7     If j = k Then
\*  8       Return j
\*  9     EndIf
\* 10   EndFor
\* 11   c <- 99
\* 12 EndProcedure
\* 13 Procedure Outer()
\* 14 Var m : Integer
\* 15 Begin
\* 16   While m < 1 Do
\* 17     Inner(1)
\* 18     m <- m + 1
\* 19   EndWhile
\* 20 EndProcedure
\* 21 Function Pick(k : Integer) : Integer
\* 22 Var j : Integer
\* 23 Begin
\* 24   While j < 3 Do
\* 25     j <- j + 1
\* 26     If j = k Then
\* 27       Return j + 10
\* 28     EndIf
\* 29   EndWhile
\* 30   c <- 99
\* 31 EndFunction
\* 32 Begin
\* 33   Outer()
\* 34   c <- Pick(2)
\* 35   Write(c)
\* 36 End
NameOuter == <<"O", "u", "t", "e", "r">>
NamePick == <<"P", "i", "c", "k">>
NestProgram ==
    Program(
        <<VarDecl(<<"c">>, TInteger, <<>>)>>,
        <<ProcedureDecl(NameInner, <<Param("k", TInteger)>>,
            <<VarDecl(<<"j">>, TInteger, <<>>)>>,
            <<ForStmt("j", Num(1), Num(3),
                      <<IfStmt(Eq(Id("j"), Id("k")), <<ReturnStmt(Id("j"), 8)>>, 7)>>, 6),
              Assign(Name("c"), Num(99), 11)>>),
          ProcedureDecl(NameOuter, <<>>, <<VarDecl(<<"m">>, TInteger, <<>>)>>,
            <<WhileStmt(Less(Id("m"), Num(1)),
                        <<CallNode(NameInner, <<Num(1)>>, 17),
                          Assign(Name("m"), Plus(Id("m"), Num(1)), 18)>>, 16)>>),
          FunctionDecl(NamePick, <<Param("k", TInteger)>>, <<VarDecl(<<"j">>, TInteger, <<>>)>>,
            <<WhileStmt(Less(Id("j"), Num(3)),
                        <<Assign(Name("j"), Plus(Id("j"), Num(1)), 25),
                          IfStmt(Eq(Id("j"), Id("k")),
                                 <<ReturnStmt(Plus(Id("j"), Num(10)), 27)>>, 26)>>, 24),
              Assign(Name("c"), Num(99), 30)>>)>>,
        <<CallNode(NameOuter, <<>>, 33),
          Assign(Name("c"), CallNode(NamePick, <<Num(2)>>, 34), 34),
          WriteStmt(<<Id("c")>>, 35)>>,
        1)

\* the programs run to observe indexing, name resolution and Return
ScalarPrograms == {ScalarProgram, PokeProgram}
CallPrograms == ScalarPrograms \cup {ScopesProgram, NestProgram}

CallExecute == ExecuteOf(1, CallPrograms)
\* a next() of the host or a step of the running generator
CallStep == status[1] # "none" /\ HandleStep(1)
CallNext == CallExecute \/ CallStep
CallSpec == Init /\ [][CallNext]_vars

\* the value of the variable name as the innermost scope that has it holds it
ValueOf(name) == heap[getVariable(callStack, name).ref].value
\* the line of the statement of p that indexes the scalar n
IndexLine(p) == IF p = ScalarProgram THEN 5 ELSE 10

\* C25: a statement that indexes the scalar n, as a Read target or as an assignment
\* target inside a function called from an expression, ends the run with the Error
\* "'n' is not an array.": apart from the Input event of a Read, that Error is the
\* event after the Step of the statement, and n keeps its value 4.
C25_NonArrayRejected ==
    prog[1] \in ScalarPrograms /\ status[1] \in {"suspendedYield", "closed"} =>
        \A i \in 1..Len(events[1]) :
            /\ events[1][i].type = "step" /\ events[1][i].line = IndexLine(prog[1])
            /\ \E j \in (i + 1)..Len(events[1]) : events[1][j].type # "input"
            => /\ \E j \in (i + 1)..Len(events[1]) :
                    /\ events[1][j] = ErrorEvent(NotArray("n"))
                    /\ \A k \in (i + 1)..(j - 1) : events[1][k].type = "input"
               /\ ValueOf("n") = NumV(4)

\* C25: Read(n[1]) in the program Scalar was answered with 2: no Error was emitted,
\* the reply was stored in n itself, and the Step of line 6 shows n = 2.
C25_Witness ==
    /\ prog[1] = ScalarProgram /\ status[1] = "suspendedYield" /\ Len(events[1]) = 5
    /\ events[1][3].type = "step" /\ events[1][3].line = 5
    /\ events[1][4] = InputEvent("n", "Real")
    /\ events[1][5].type = "step" /\ events[1][5].line = 6
    /\ events[1][5].variables["n"].value = NumV(2)

\* C25: n <- Put() in the program Poke ran n[1] <- 3 inside Put, and the run ended
\* with the Error "Index 1 out of bounds.".
C25_SyncWitness ==
    /\ prog[1] = PokeProgram /\ status[1] = "suspendedYield"
    /\ Last(events[1]) = ErrorEvent(IndexError(NumV(1)))
    /\ events[1][Len(events[1]) - 1].line = 10

\* the scopes of cs that hold name, and the cell of the innermost of them
Holders(cs, name) == {i \in 1..Len(cs) : name \in DOMAIN cs[i].variables}
BindingOf(cs, name) ==
    cs[CHOOSE i \in Holders(cs, name) : \A k \in Holders(cs, name) : k <= i].variables[name]
ProgramNames == {"n", "g", "u", "c", "k", "j", "m"}
\* the heap h with value stored in the cell at address b and nothing else changed
Stored(h, b, value) == [h EXCEPT ![b].value = value]

\* reading name as an identifier in the scopes as they are
ReadsInnermost(m, name) ==
    IF Holders(m.cs, name) = {}
    THEN evaluate(StateOf(m), Id(name)) = Fail(StateOf(m), NotDeclared(name))
    ELSE evaluate(StateOf(m), Id(name))
            = Ok(StateOf(m), m.heap[BindingOf(m.cs, name)].value)
\* name <- value, once value is evaluated to val
AssignsInnermost(m, after, name, val) ==
    IF Holders(val.st.cs, name) = {} THEN StoppedBy(m, after, NotDeclared(name))
    ELSE /\ after.heap = Stored(val.st.heap, BindingOf(val.st.cs, name), val.val)
         /\ after.cs = val.st.cs /\ after.events = m.events
\* For name <- start ..., entered
ForSetsInnermost(m, after, name) ==
    IF Holders(m.cs, name) = {} THEN StoppedBy(m, after, NotDeclared(name))
    ELSE /\ after.heap = Stored(m.heap, BindingOf(m.cs, name),
                                Ev(StateOf(m), Top(m).node.start).val)
         /\ Top(after).target = BindingOf(m.cs, name)
\* Read(name): the request, and the reply stored
AsksInnermost(m, after, name) ==
    IF Holders(m.cs, name) = {} THEN StoppedBy(m, after, NotDeclared(name))
    ELSE /\ Last(after.events).type = "input" /\ Last(after.events).varName = name
         /\ Top(after).target = BindingOf(m.cs, name)
ReadTarget(m) == Top(m).node.args[Top(m).arg]

\* C26: every read and every write of a name, as an identifier, an assignment
\* target, a For loop variable or a Read target, goes to the innermost scope that
\* holds the name and changes that cell only; a name that no scope holds ends the
\* run with the Error "Variable '<n>' not declared." as the next event.  What a
\* callee writes to a name it does not declare is the caller's variable, and is
\* there after the return.
C26_InnermostBinding ==
    /\ status[1] = "executing" /\ callStack # <<>> =>
          \A name \in ProgramNames : ReadsInnermost(Machine(1), name)
    /\ AtStmt(Machine(1), "Assignment", "step") /\ status[1] = "executing"
       /\ Top(Machine(1)).node.target.kind = "Name"
       /\ ~Failed(Ev(StateOf(Machine(1)), Top(Machine(1)).node.value)) =>
          AssignsInnermost(Machine(1), microStep(Machine(1)), Top(Machine(1)).node.target.name,
                           Ev(StateOf(Machine(1)), Top(Machine(1)).node.value))
    /\ AtStmt(Machine(1), "For", "step") /\ status[1] = "executing" =>
          ForSetsInnermost(Machine(1), microStep(Machine(1)), Top(Machine(1)).node.variable)
    /\ AtStmt(Machine(1), "For", "forinc") /\ status[1] = "executing" =>
          /\ Top(Machine(1)).target = BindingOf(callStack, Top(Machine(1)).node.variable)
          /\ \A a \in DOMAIN heap : a # Top(Machine(1)).target =>
                microStep(Machine(1)).heap[a] = heap[a]
    /\ AtRead(Machine(1), "readarg") /\ status[1] = "executing"
       /\ Top(Machine(1)).arg <= Len(Top(Machine(1)).node.args)
       /\ ReadTarget(Machine(1)).kind = "Identifier" =>
          AsksInnermost(Machine(1), microStep(Machine(1)), ReadTarget(Machine(1)).name)
    /\ AtRead(Machine(1), "readwait") /\ status[1] = "executing"
       /\ ReadTarget(Machine(1)).kind = "Identifier"
       /\ parseInput(Top(Machine(1)).typeToMatch, sent[1]).err = NoErr =>
          microStep(Machine(1)).heap
             = Stored(heap, BindingOf(callStack, ReadTarget(Machine(1)).name),
                      parseInput(Top(Machine(1)).typeToMatch, sent[1]).val)
    /\ prog[1] = ScopesProgram =>
          \A i \in 1..Len(events[1]) : events[1][i].type = "step" =>
              /\ events[1][i].line = 19 =>
                    /\ events[1][i].variables["n"].value = NumV(5)
                    /\ NumLess(NumV(2), events[1][i].variables["g"].value)
              /\ events[1][i].line = 20 =>
                    /\ events[1][i].variables["n"].value = NumV(5)
                    /\ events[1][i].variables["g"].value
                          = Arith("PLUS", events[1][i - 1].variables["g"].value, NumV(10))

\* C26: Inner(1) of the program Scopes is at n <- n + g, with its parameter n over
\* the global n: the read of n gives the parameter, 1, and not the global, 5.
C26_Witness ==
    /\ prog[1] = ScopesProgram /\ status[1] = "executing"
    /\ AtStmt(Machine(1), "Assignment", "step") /\ Top(Machine(1)).node.line = 6
    /\ Holders(callStack, "n") = {1, 2} /\ Holders(callStack, "g") = {1}
    /\ heap[callStack[1].variables["n"]].value = NumV(5)
    /\ evaluate(StateOf(Machine(1)), Id("n")).val = NumV(1)

\* C26: Scopes was given 2: Inner left the global g at 3, Peek raised it to 13 and
\* returned the global n, and line 20 is reached with n = 5 and g = 13.
C26_ReturnWitness ==
    /\ prog[1] = ScopesProgram /\ events[1] # <<>>
    /\ Last(events[1]).type = "step" /\ Last(events[1]).line = 20
    /\ Last(events[1]).variables["n"].value = NumV(5)
    /\ Last(events[1]).variables["g"].value = NumV(13)

\* C26: Scopes was given 0: the For body ran u <- g, no scope holds u, and the run
\* ended with "Variable 'u' not declared.".
C26_UndeclaredWitness ==
    /\ prog[1] = ScopesProgram /\ events[1] # <<>>
    /\ Last(events[1]) = ErrorEvent(NotDeclared("u"))
    /\ events[1][Len(events[1]) - 1].line = 8

\* the generator is about to run a Return inside a procedure, whose value evaluates
AtCalleeReturn(h) ==
    /\ status[h] = "executing"
    /\ AtStmt(Machine(h), "Return", "step")
    /\ CallFrames(ctl[h]) # {}
    /\ ~Failed(Ev(StateOf(Machine(h)), Top(Machine(h)).node.value))
\* the frame of the innermost executeCall
InnermostCall(m) == CHOOSE j \in CallFrames(m.ctl) : \A k \in CallFrames(m.ctl) : k <= j
\* the statements a Return is nested in: the frames above the innermost call
NestingDepth(m) == Cardinality({j \in InnermostCall(m)..Len(m.ctl) : m.ctl[j].k = "stmt"}) - 1
\* the machine after the Return, and after the catch of executeCall that follows it
AfterReturn(m) == microStep(m)
AfterCall(m) == microStep(microStep(m))
\* a call of a function from an expression is about to be evaluated
AtSyncCall(h) ==
    /\ status[h] = "executing"
    /\ AtStmt(Machine(h), "Assignment", "step")
    /\ Top(Machine(h)).node.value.kind = "Call"

\* C27: a Return inside a callee, at any depth of nested statements, ends that
\* activation only: the value is what the call yields, the callee's scope and no
\* other is popped, the rest of the callee's body is not run and nothing is
\* emitted, and the caller goes on after the call with its scopes, frames and
\* loops as they were.
C27_ReturnUnwindsOne ==
    /\ AtCalleeReturn(1) =>
          /\ AfterReturn(Machine(1)).cs[Len(callStack)].returnVal
                = Ev(StateOf(Machine(1)), Top(Machine(1)).node.value).val
          /\ AfterReturn(Machine(1)).ctl = SubSeq(ctl[1], 1, InnermostCall(Machine(1)))
          /\ AfterCall(Machine(1)).cs = SubSeq(callStack, 1, Len(callStack) - 1)
          /\ AfterCall(Machine(1)).ctl = SubSeq(ctl[1], 1, InnermostCall(Machine(1)) - 1)
          /\ AfterCall(Machine(1)).heap = heap
          /\ AfterCall(Machine(1)).events = events[1]
          /\ AfterCall(Machine(1)).status = "executing"
    /\ AtSyncCall(1) /\ prog[1] = NestProgram =>
          /\ Ev(StateOf(Machine(1)), Top(Machine(1)).node.value).val = NumV(12)
          /\ Ev(StateOf(Machine(1)), Top(Machine(1)).node.value).st.cs = callStack
          /\ ~Failed(Ev(StateOf(Machine(1)), Top(Machine(1)).node.value))
    /\ prog[1] = NestProgram =>
          \A i \in 1..Len(events[1]) :
              /\ events[1][i].type = "step" => events[1][i].line \notin {11, 30}
              /\ events[1][i].type = "step" => events[1][i].variables["c"].value # NumV(99)
              /\ events[1][i].type = "step" /\ events[1][i].line = 8 /\ i < Len(events[1]) =>
                    events[1][i + 1].type = "step" /\ events[1][i + 1].line = 18
              /\ events[1][i].type = "output" => events[1][i].value = <<"1", "2">>

\* C27: Nest is at the Return of line 8, inside an If inside a For of Inner, which
\* was called from the While of Outer, which was called from the main body: three
\* scopes and two calls are live.
C27_Witness ==
    /\ prog[1] = NestProgram /\ AtCalleeReturn(1)
    /\ Top(Machine(1)).node.line = 8
    /\ NestingDepth(Machine(1)) = 2
    /\ Len(callStack) = 3 /\ Cardinality(CallFrames(ctl[1])) = 2
    /\ \E j \in 1..Len(ctl[1]) :
          ctl[1][j].k = "stmt" /\ ctl[1][j].node.kind = "While" /\ j < InnermostCall(Machine(1))

\* C27: Nest has emitted its Write: Pick(2) returned 12 from inside its While.
C27_SyncWitness ==
    /\ prog[1] = NestProgram /\ events[1] # <<>>
    /\ Last(events[1]) = OutputEvent(<<"1", "2">>)

(***************************************************************************)
(* The program parser (Parser.parse and the methods for declarations and   *)
(* statements), on the tokens of tokenize().  Names are the values of      *)
(* IDENTIFIER tokens, which are character sequences.  A loop that collects *)
(* nodes gives [ps, nodes, err].                                           *)
(***************************************************************************)
\* the next parse step on the result r of the last one, unless that one threw
AndThen(r, body(_)) ==
    Bind(r, LAMBDA v : IF Failed(v) THEN ParseFail(v.ps, v.err) ELSE body(v))
Collected(ps, nodes) == [ps |-> ps, nodes |-> nodes, err |-> NoErr]
TypeTokens == {"T_INTEGER", "T_REAL", "T_BOOLEAN", "T_STRING", "T_CHAR"}
\* parseInt(sizeToken.value) on the text of a NUMBER_LITERAL
parseInt(chars) == DigitsToInt(DigitPrefix(chars))

\* Every call among these parse methods that can come back to its caller goes
\* through parseUnit, the one operator declared recursive.
RECURSIVE parseUnit(_)
ParseBlock(ps, endTokens, done) ==
    parseUnit([rule |-> "block", ps |-> ps, endTokens |-> endTokens, done |-> done])
ParseStatement(ps) == parseUnit([rule |-> "statement", ps |-> ps])
ParseReferences(ps, done) == parseUnit([rule |-> "references", ps |-> ps, done |-> done])
ParseNames(ps, done) == parseUnit([rule |-> "names", ps |-> ps, done |-> done])
ParseDimensions(ps, done) == parseUnit([rule |-> "dimensions", ps |-> ps, done |-> done])
ParseVarDeclarations(ps, done) == parseUnit([rule |-> "vars", ps |-> ps, done |-> done])
ParseParams(ps, done) == parseUnit([rule |-> "params", ps |-> ps, done |-> done])
ParseFunctions(ps, done) == parseUnit([rule |-> "functions", ps |-> ps, done |-> done])

\* while (!isAtEnd() && !endTokens.some(check) && !check(ELSE)) statements.push(...)
parseBlock(ps, endTokens, done) ==
    IF ~isAtEnd(ps) /\ ~check(ps, endTokens) /\ ~check(ps, {"ELSE"})
    THEN AndThen(ParseStatement(ps), LAMBDA stmt :
            ParseBlock(stmt.ps, endTokens, Append(done, stmt.node)))
    ELSE Collected(ps, done)

\* do { args.push(this.parseReference()) } while (this.match(COMMA))
parseReferences(ps, done) ==
    AndThen(parseReference(ps), LAMBDA one :
        IF check(one.ps, {"COMMA"})
        THEN ParseReferences(advanceToken(one.ps), Append(done, one.node))
        ELSE Collected(one.ps, Append(done, one.node)))

\* parseRead and parseWrite, entered after match(READ), match(WRITE)
parseRead(ps) ==
    AndThen(consume(ps, "LPAREN", "Expect '('."), LAMBDA open :
    AndThen(IF check(open.ps, {"RPAREN"}) THEN Collected(open.ps, <<>>)
            ELSE ParseReferences(open.ps, <<>>),
            LAMBDA args :
    AndThen(consume(args.ps, "RPAREN", "Expect ')'."), LAMBDA close :
        ParseOk(close.ps, ReadStmt(args.nodes, previous(ps).line)))))

parseWrite(ps) ==
    AndThen(consume(ps, "LPAREN", "Expect '('."), LAMBDA open :
    AndThen(IF check(open.ps, {"RPAREN"}) THEN Collected(open.ps, <<>>)
            ELSE parseList(open.ps, <<>>),
            LAMBDA args :
    AndThen(consume(args.ps, "RPAREN", "Expect ')'."), LAMBDA close :
        ParseOk(close.ps, WriteStmt(args.nodes, previous(ps).line)))))

\* target is the name when the reference is an Identifier, else the ArrayAccess
parseAssignment(ps) ==
    AndThen(parseReference(ps), LAMBDA target :
    AndThen(consume(target.ps, "ASSIGN", "Expect '<-' or ':=' for assignment."),
            LAMBDA arrow :
    AndThen(parseExpression(arrow.ps), LAMBDA value :
        ParseOk(value.ps,
                Assign(IF target.node.kind = "Identifier" THEN Name(target.node.name)
                       ELSE target.node,
                       value.node, target.node.line)))))

\* parseIf, parseWhile and parseFor, entered after match(IF), match(WHILE), match(FOR)
parseIf(ps) ==
    AndThen(parseExpression(ps), LAMBDA condition :
    AndThen(consume(condition.ps, "THEN", "Expect 'Then'."), LAMBDA then :
    AndThen(ParseBlock(then.ps, {"ELSE", "ENDIF"}, <<>>), LAMBDA thenBranch :
    AndThen(IF check(thenBranch.ps, {"ELSE"})
            THEN ParseBlock(advanceToken(thenBranch.ps), {"ENDIF"}, <<>>)
            ELSE Collected(thenBranch.ps, <<>>),
            LAMBDA elseBranch :
    AndThen(consume(elseBranch.ps, "ENDIF", "Expect 'EndIf'."), LAMBDA close :
        ParseOk(close.ps,
                IF check(thenBranch.ps, {"ELSE"})
                THEN IfElse(condition.node, thenBranch.nodes, elseBranch.nodes,
                            previous(ps).line)
                ELSE IfStmt(condition.node, thenBranch.nodes, previous(ps).line)))))))

parseWhile(ps) ==
    AndThen(parseExpression(ps), LAMBDA condition :
    AndThen(consume(condition.ps, "DO", "Expect 'Do'."), LAMBDA do :
    AndThen(ParseBlock(do.ps, {"ENDWHILE"}, <<>>), LAMBDA body :
    AndThen(consume(body.ps, "ENDWHILE", "Expect 'EndWhile'."), LAMBDA close :
        ParseOk(close.ps, WhileStmt(condition.node, body.nodes, previous(ps).line))))))

parseFor(ps) ==
    AndThen(consume(ps, "IDENTIFIER", "Expect loop variable."), LAMBDA variable :
    AndThen(consume(variable.ps, "ASSIGN", "Expect assignment."), LAMBDA arrow :
    AndThen(parseExpression(arrow.ps), LAMBDA start :
    AndThen(consume(start.ps, "TO", "Expect 'to'."), LAMBDA to :
    AndThen(parseExpression(to.ps), LAMBDA end :
    AndThen(IF check(end.ps, {"STEP"}) THEN parseExpression(advanceToken(end.ps))
            ELSE ParseOk(end.ps, Num(1)),
            LAMBDA step :
    AndThen(consume(step.ps, "DO", "Expect 'do'."), LAMBDA do :
    AndThen(ParseBlock(do.ps, {"ENDFOR"}, <<>>), LAMBDA body :
    AndThen(consume(body.ps, "ENDFOR", "Expect 'EndFor'."), LAMBDA close :
        ParseOk(close.ps,
                IF check(end.ps, {"STEP"})
                THEN ForStep(previous(variable.ps).value, start.node, end.node, step.node,
                             body.nodes, previous(ps).line)
                ELSE ForStmt(previous(variable.ps).value, start.node, end.node,
                             body.nodes, previous(ps).line)))))))))))

parseStatement(ps) ==
    IF check(ps, {"READ"}) THEN parseRead(advanceToken(ps))
    ELSE IF check(ps, {"WRITE"}) THEN parseWrite(advanceToken(ps))
    ELSE IF check(ps, {"IF"}) THEN parseIf(advanceToken(ps))
    ELSE IF check(ps, {"WHILE"}) THEN parseWhile(advanceToken(ps))
    ELSE IF check(ps, {"FOR"}) THEN parseFor(advanceToken(ps))
    ELSE IF check(ps, {"RETURN"})
    THEN AndThen(parseExpression(advanceToken(ps)), LAMBDA value :
            ParseOk(value.ps, ReturnStmt(value.node, peekToken(ps).line)))
    ELSE IF check(ps, {"IDENTIFIER"})
    THEN (IF ps.tokens[ps.current + 2].type = "LPAREN" THEN parseCallStatement(ps)
          ELSE parseAssignment(ps))
    ELSE ParseFail(ps, Err("Line ${this.peek().line}: Unexpected token '${this.peek().value}'.",
                           <<peekToken(ps).line, peekToken(ps).value>>))

\* while (this.match(COMMA)) names.push(this.consume(IDENTIFIER, ...).value)
parseNames(ps, done) ==
    IF check(ps, {"COMMA"})
    THEN AndThen(consume(advanceToken(ps), "IDENTIFIER", "Expect variable name."),
                 LAMBDA name : ParseNames(name.ps, Append(done, previous(name.ps).value)))
    ELSE Collected(ps, done)

\* do { [ size ] } while (this.check(LBRACKET))
parseDimensions(ps, done) ==
    AndThen(consume(ps, "LBRACKET", "Expect '[' for array size."), LAMBDA open :
    AndThen(consume(open.ps, "NUMBER_LITERAL", "Array size must be a number literal."),
            LAMBDA sizeToken :
    AndThen(consume(sizeToken.ps, "RBRACKET", "Expect ']'."), LAMBDA close :
        IF check(close.ps, {"LBRACKET"})
        THEN ParseDimensions(close.ps, Append(done, parseInt(previous(sizeToken.ps).value)))
        ELSE Collected(close.ps, Append(done, parseInt(previous(sizeToken.ps).value))))))

\* the array part of a declaration, if it is there: array [N]... of
parseArrayPart(ps) ==
    IF check(ps, {"IDENTIFIER"}) /\ toLowerCase(peekToken(ps).value) = <<"a", "r", "r", "a", "y">>
    THEN AndThen(ParseDimensions(advanceToken(ps), <<>>), LAMBDA dimensions :
         AndThen(consume(dimensions.ps, "IDENTIFIER", "Expect 'of'."), LAMBDA ofTok :
            IF toLowerCase(previous(ofTok.ps).value) # <<"o", "f">>
            THEN ParseFail(ofTok.ps, Err("Line ${ofTok.line}: Expect 'of'.",
                                         <<previous(ofTok.ps).line>>))
            ELSE Collected(ofTok.ps, dimensions.nodes)))
    ELSE Collected(ps, <<>>)

\* while (this.check(IDENTIFIER)) { names : [array ... of] type }
parseVarDeclarations(ps, done) ==
    IF ~check(ps, {"IDENTIFIER"}) THEN Collected(ps, done)
    ELSE
    AndThen(ParseNames(advanceToken(ps), <<peekToken(ps).value>>), LAMBDA names :
    AndThen(consume(names.ps, "COLON", "Expect ':' after variable names."), LAMBDA colon :
    AndThen(parseArrayPart(colon.ps), LAMBDA dimensions :
        IF check(dimensions.ps, TypeTokens)
        THEN ParseVarDeclarations(
                advanceToken(dimensions.ps),
                Append(done, VarDecl(names.nodes, peekToken(dimensions.ps).value,
                                     dimensions.nodes)))
        ELSE ParseFail(dimensions.ps,
                       ParseError(dimensions.ps, "Expect valid type (Integer, Real, etc.).")))))

parseType(ps) ==
    IF check(ps, TypeTokens)
    THEN ParseOk(advanceToken(ps), [kind |-> "Type", value |-> peekToken(ps).value])
    ELSE ParseFail(ps, ParseError(ps, "Expect type."))

\* do { name : type } while (this.match(COMMA))
parseParams(ps, done) ==
    AndThen(consume(ps, "IDENTIFIER", "Expect parameter name."), LAMBDA name :
    AndThen(consume(name.ps, "COLON", "Expect ':'."), LAMBDA colon :
    AndThen(parseType(colon.ps), LAMBDA type :
        IF check(type.ps, {"COMMA"})
        THEN ParseParams(advanceToken(type.ps),
                         Append(done, Param(previous(name.ps).value, type.node.value)))
        ELSE Collected(type.ps,
                       Append(done, Param(previous(name.ps).value, type.node.value))))))

\* the header of a function or a procedure up to its ')': [ps, node: the name, nodes]
parseHeader(ps, keyword, messages) ==
    AndThen(consume(ps, keyword, messages[1]), LAMBDA start :
    AndThen(consume(start.ps, "IDENTIFIER", messages[2]), LAMBDA name :
    AndThen(consume(name.ps, "LPAREN", "Expect '('."), LAMBDA open :
    AndThen(IF check(open.ps, {"RPAREN"}) THEN Collected(open.ps, <<>>)
            ELSE ParseParams(open.ps, <<>>),
            LAMBDA params :
    AndThen(consume(params.ps, "RPAREN", "Expect ')'."), LAMBDA close :
        [ps |-> close.ps, node |-> previous(name.ps).value, nodes |-> params.nodes,
         err |-> NoErr])))))

\* [Var declarations] Begin block endToken: [ps, node: the declarations, nodes: the body]
parseBody(ps, endToken, message) ==
    AndThen(IF check(ps, {"VAR"}) THEN ParseVarDeclarations(advanceToken(ps), <<>>)
            ELSE Collected(ps, <<>>),
            LAMBDA variables :
    AndThen(consume(variables.ps, "BEGIN", "Expect 'Begin'."), LAMBDA begin :
    AndThen(ParseBlock(begin.ps, {endToken}, <<>>), LAMBDA body :
    AndThen(consume(body.ps, endToken, message), LAMBDA close :
        [ps |-> close.ps, node |-> variables.nodes, nodes |-> body.nodes, err |-> NoErr]))))

parseFunction(ps) ==
    AndThen(parseHeader(ps, "FUNCTION", <<"Expect 'Function'.", "Expect function name.">>),
            LAMBDA header :
    AndThen(consume(header.ps, "COLON", "Expect ':' before return type."), LAMBDA colon :
    AndThen(parseType(colon.ps), LAMBDA returnType :
    AndThen(parseBody(returnType.ps, "ENDFUNCTION", "Expect 'EndFunction'."), LAMBDA rest :
        ParseOk(rest.ps, FunctionDecl(header.node, header.nodes, rest.node, rest.nodes))))))

parseProcedure(ps) ==
    AndThen(parseHeader(ps, "PROCEDURE", <<"Expect 'Procedure'.", "Expect procedure name.">>),
            LAMBDA header :
    AndThen(parseBody(header.ps, "ENDPROCEDURE", "Expect 'EndProcedure'."), LAMBDA rest :
        ParseOk(rest.ps, ProcedureDecl(header.node, header.nodes, rest.node, rest.nodes))))

\* while (check(FUNCTION) || check(PROCEDURE)) functions.push(...)
parseFunctions(ps, done) ==
    IF check(ps, {"FUNCTION"})
    THEN AndThen(parseFunction(ps), LAMBDA func :
            ParseFunctions(func.ps, Append(done, func.node)))
    ELSE IF check(ps, {"PROCEDURE"})
    THEN AndThen(parseProcedure(ps), LAMBDA proc :
            ParseFunctions(proc.ps, Append(done, proc.node)))
    ELSE Collected(ps, done)

parseUnit(task) ==
    CASE task.rule = "block" -> parseBlock(task.ps, task.endTokens, task.done)
      [] task.rule = "statement" -> parseStatement(task.ps)
      [] task.rule = "references" -> parseReferences(task.ps, task.done)
      [] task.rule = "names" -> parseNames(task.ps, task.done)
      [] task.rule = "dimensions" -> parseDimensions(task.ps, task.done)
      [] task.rule = "vars" -> parseVarDeclarations(task.ps, task.done)
      [] task.rule = "params" -> parseParams(task.ps, task.done)
      [] task.rule = "functions" -> parseFunctions(task.ps, task.done)

\* Parser.parse()
parse(ps) ==
    AndThen(consume(ps, "ALGORITHM", "Expect 'Algorithm' at start of program."),
            LAMBDA startToken :
    AndThen(consume(startToken.ps, "IDENTIFIER", "Expect algorithm name."), LAMBDA name :
    AndThen(IF check(name.ps, {"VAR"}) THEN ParseVarDeclarations(advanceToken(name.ps), <<>>)
            ELSE Collected(name.ps, <<>>),
            LAMBDA variables :
    AndThen(ParseFunctions(variables.ps, <<>>), LAMBDA funcs :
    AndThen(consume(funcs.ps, "BEGIN", "Expect 'Begin' after declarations."),
            LAMBDA begin :
    AndThen(ParseBlock(begin.ps, {"END"}, <<>>), LAMBDA body :
    AndThen(consume(body.ps, "END", "Expect 'End' at end of program."), LAMBDA close :
        ParseOk(close.ps,
                Program(variables.nodes, funcs.nodes, body.nodes,
                        previous(startToken.ps).line)))))))))

(***************************************************************************)
(* A source run as startExecution runs it: tokenize, parse, execute, and   *)
(* then the generator advanced by the host.                                *)
(***************************************************************************)
\*  1 Algorithm Dup
\*  2 Var r : Integer
\*  3 Function Pick() : Integer
\*  4 Begin
\*  5   Return 1
\*  6 EndFunction
\*  7 Function PICK() : Integer
\*  8 Begin
\*  9   Return 2
\* 10 EndFunction
\* 11 Begin
\* 12   r <- Pick()
\* 13   Write(r)
\* 14 End
DupSource ==
    <<"A", "l", "g", "o", "r", "i", "t", "h", "m", " ", "D", "u", "p", "\n", "V", "a", "r", " ",
      "r", " ", ":", " ", "I", "n", "t", "e", "g", "e", "r", "\n", "F", "u", "n", "c", "t", "i",
      "o", "n", " ", "P", "i", "c", "k", "(", ")", " ", ":", " ", "I", "n", "t", "e", "g", "e",
      "r", "\n", "B", "e", "g", "i", "n", "\n", " ", " ", "R", "e", "t", "u", "r", "n", " ", "1",
      "\n", "E", "n", "d", "F", "u", "n", "c", "t", "i", "o", "n", "\n", "F", "u", "n", "c", "t",
      "i", "o", "n", " ", "P", "I", "C", "K", "(", ")", " ", ":", " ", "I", "n", "t", "e", "g",
      "e", "r", "\n", "B", "e", "g", "i", "n", "\n", " ", " ", "R", "e", "t", "u", "r", "n", " ",
      "2", "\n", "E", "n", "d", "F", "u", "n", "c", "t", "i", "o", "n", "\n", "B", "e", "g", "i",
      "n", "\n", " ", " ", "r", " ", "<", "-", " ", "P", "i", "c", "k", "(", ")", "\n", " ", " ",
      "W", "r", "i", "t", "e", "(", "r", ")", "\n", "E", "n", "d">>

\*  1 Algorithm Mix
\*  2 Var a : Array[2] of Integer
\*  3     i, n : Integer
\*  4 Procedure Show(k : Integer)
\*  5 Var t : Integer
\*  6 Begin
\*  7   If k > 1 Then
\*  8     Write(k)
\*  9   Else
\* 10     Write(0)
\* 11   EndIf
\* 12 EndProcedure
\* 13 Function show(k : Integer) : Integer
\* 14 Begin
\* 15   Write(9)
\* 16 EndFunction
\* 17 Begin
\* 18   Read(n)
\* 19   For i <- 0 To 1 Do
\* 20     a[i] <- n
\* 21   EndFor
\* 22   While n < 1 Do
\* 23     n <- n + 1
\* 24   EndWhile
\* 25   Show(2)
\* 26 End
MixSource ==
    <<"A", "l", "g", "o", "r", "i", "t", "h", "m", " ", "M", "i", "x", "\n", "V", "a", "r", " ",
      "a", " ", ":", " ", "A", "r", "r", "a", "y", "[", "2", "]", " ", "o", "f", " ", "I", "n",
      "t", "e", "g", "e", "r", "\n", " ", " ", " ", " ", "i", ",", " ", "n", " ", ":", " ", "I",
      "n", "t", "e", "g", "e", "r", "\n", "P", "r", "o", "c", "e", "d", "u", "r", "e", " ", "S",
      "h", "o", "w", "(", "k", " ", ":", " ", "I", "n", "t", "e", "g", "e", "r", ")", "\n", "V",
      "a", "r", " ", "t", " ", ":", " ", "I", "n", "t", "e", "g", "e", "r", "\n", "B", "e", "g",
      "i", "n", "\n", " ", " ", "I", "f", " ", "k", " ", ">", " ", "1", " ", "T", "h", "e", "n",
      "\n", " ", " ", " ", " ", "W", "r", "i", "t", "e", "(", "k", ")", "\n", " ", " ", "E", "l",
      "s", "e", "\n", " ", " ", " ", " ", "W", "r", "i", "t", "e", "(", "0", ")", "\n", " ", " ",
      "E", "n", "d", "I", "f", "\n", "E", "n", "d", "P", "r", "o", "c", "e", "d", "u", "r", "e",
      "\n", "F", "u", "n", "c", "t", "i", "o", "n", " ", "s", "h", "o", "w", "(", "k", " ", ":",
      " ", "I", "n", "t", "e", "g", "e", "r", ")", " ", ":", " ", "I", "n", "t", "e", "g", "e",
      "r", "\n", "B", "e", "g", "i", "n", "\n", " ", " ", "W", "r", "i", "t", "e", "(", "9", ")",
      "\n", "E", "n", "d", "F", "u", "n", "c", "t", "i", "o", "n", "\n", "B", "e", "g", "i", "n",
      "\n", " ", " ", "R", "e", "a", "d", "(", "n", ")", "\n", " ", " ", "F", "o", "r", " ", "i",
      " ", "<", "-", " ", "0", " ", "T", "o", " ", "1", " ", "D", "o", "\n", " ", " ", " ", " ",
      "a", "[", "i", "]", " ", "<", "-", " ", "n", "\n", " ", " ", "E", "n", "d", "F", "o", "r",
      "\n", " ", " ", "W", "h", "i", "l", "e", " ", "n", " ", "<", " ", "1", " ", "D", "o", "\n",
      " ", " ", " ", " ", "n", " ", "<", "-", " ", "n", " ", "+", " ", "1", "\n", " ", " ", "E",
      "n", "d", "W", "h", "i", "l", "e", "\n", " ", " ", "S", "h", "o", "w", "(", "2", ")", "\n",
      "E", "n", "d">>

\*  1 Algorithm One
\*  2 { F and G }
\*  3 Function F() : Integer
\*  4 Begin
\*  5   Return 1
\*  6 EndFunction
\*  7 Function G() : Integer
\*  8 Begin
\*  9   Return F() + 1
\* 10 EndFunction
\* 11 Begin
\* 12   // the sum
\* 13   Write("s", G())
\* 14 End
UniqueSource ==
    <<"A", "l", "g", "o", "r", "i", "t", "h", "m", " ", "O", "n", "e", "\n", "{", " ", "F", " ",
      "a", "n", "d", " ", "G", " ", "}", "\n", "F", "u", "n", "c", "t", "i", "o", "n", " ", "F",
      "(", ")", " ", ":", " ", "I", "n", "t", "e", "g", "e", "r", "\n", "B", "e", "g", "i", "n",
      "\n", " ", " ", "R", "e", "t", "u", "r", "n", " ", "1", "\n", "E", "n", "d", "F", "u", "n",
      "c", "t", "i", "o", "n", "\n", "F", "u", "n", "c", "t", "i", "o", "n", " ", "G", "(", ")",
      " ", ":", " ", "I", "n", "t", "e", "g", "e", "r", "\n", "B", "e", "g", "i", "n", "\n", " ",
      " ", "R", "e", "t", "u", "r", "n", " ", "F", "(", ")", " ", "+", " ", "1", "\n", "E", "n",
      "d", "F", "u", "n", "c", "t", "i", "o", "n", "\n", "B", "e", "g", "i", "n", "\n", " ", " ",
      "/", "/", " ", "t", "h", "e", " ", "s", "u", "m", "\n", " ", " ", "W", "r", "i", "t", "e",
      "(", "\"", "s", "\"", ",", " ", "G", "(", ")", ")", "\n", "E", "n", "d">>

\*  1 Algorithm Bad
\*  2 Function F()
\*  3 Begin
\*  4 EndFunction
\*  5 Begin
\*  6 End
BadSource ==
    <<"A", "l", "g", "o", "r", "i", "t", "h", "m", " ", "B", "a", "d", "\n", "F", "u", "n", "c",
      "t", "i", "o", "n", " ", "F", "(", ")", "\n", "B", "e", "g", "i", "n", "\n", "E", "n", "d",
      "F", "u", "n", "c", "t", "i", "o", "n", "\n", "B", "e", "g", "i", "n", "\n", "E", "n", "d">>

ProgramSources == {DupSource, MixSource, UniqueSource, BadSource}

\* new Lexer(code), for one of the sources
ProgramInit ==
    /\ InterpreterInit /\ parser = IdleParser /\ calc = IdleCalc /\ driver = IdleDriver
    /\ \E source \in ProgramSources : lexer = NewLexer(source)

\* const ast = new Parser(tokens).parse()
ParseProgram ==
    /\ lexer.status = "returned"
    /\ parser.status = "idle"
    /\ parser' = ParserAfter(parse(NewParser(lexer.tokens)))
    /\ UNCHANGED <<interpreterVars, lexer, calc, driver>>

\* interpreter.execute(ast)
ExecuteParsed == parser.status = "parsed" /\ ExecuteOf(1, {parser.node})
\* a next() of the host or a step of the running generator
ParsedStep == status[1] # "none" /\ HandleStep(1)

ProgramNext == LexNext \/ ParseProgram \/ ExecuteParsed \/ ParsedStep
ProgramSpec == ProgramInit /\ [][ProgramNext]_vars

\* the name of the i-th declaration of p as the function table keys it
CallableName(p, i) == toLowerCase(p.functions[i].name)
Started(h) == status[h] # "none" /\ parser.status = "parsed" /\ prog[h] = parser.node

\* C28: a program that parse has accepted and execute has started has no two
\* function or procedure declarations whose names are equal ignoring case, and
\* once the function table is filled each declaration is the entry under its name.
C28_CallableNamesUnique ==
    Started(1) =>
        /\ \A i, j \in 1..Len(prog[1].functions) :
              i # j => CallableName(prog[1], i) # CallableName(prog[1], j)
        /\ callStack # <<>> =>
              \A i \in 1..Len(prog[1].functions) :
                  functions[CallableName(prog[1], i)] = prog[1].functions[i]

\* C28: the source Dup, which declares Pick and PICK, was parsed and run: the
\* function table has the one entry pick, it is the second declaration, and
\* r <- Pick() followed by Write(r) has written 2.
C28_Witness ==
    /\ lexer.source = DupSource /\ Started(1)
    /\ Len(prog[1].functions) = 2
    /\ CallableName(prog[1], 1) = CallableName(prog[1], 2)
    /\ DOMAIN functions = {<<"p", "i", "c", "k">>}
    /\ functions[<<"p", "i", "c", "k">>] = prog[1].functions[2]
    /\ events[1] # <<>> /\ Last(events[1]) = OutputEvent(<<"2">>)

\* C28: the source One, whose functions are F and G, was parsed and run, and has
\* written s 2; the source Bad was refused by parse.
C28_UniqueWitness ==
    /\ lexer.source = UniqueSource /\ Started(1)
    /\ DOMAIN functions = {<<"f">>, <<"g">>}
    /\ events[1] # <<>> /\ Last(events[1]) = OutputEvent(<<"s", " ", "2">>)
C28_RefusedWitness ==
    /\ lexer.source = BadSource /\ parser.status = "thrown"
    /\ parser.error = Err("Line ${this.peek().line}: Expect ':' before return type.", <<3>>)

\* C28: the source Mix was run with the reply 0: Show(2) ran the function show,
\* the later declaration, which wrote 9.
C28_MixWitness ==
    /\ lexer.source = MixSource /\ Started(1)
    /\ events[1] # <<>> /\ Last(events[1]) = OutputEvent(<<"9">>)

(***************************************************************************)
(* The driver.  App.tsx runs one program at a time: startExecution arms a  *)
(* timer that creates the Interpreter and its generator, processGenerator  *)
(* calls next() in a loop that hands the thread back through setTimeout    *)
(* when its step budget is used up, and the toolbar and the input form     *)
(* call the handlers between the timers.  driver holds                     *)
(*   isRunning, isPaused, isWaitingForInput, expectedType, activeLine,     *)
(*   output, errors, breakpoints     the React state of the component      *)
(*   generatorRef   generatorRef.current: 0 for null, else the position    *)
(*                  of the generator in generators                         *)
(*   generators     the generators created so far, each with the           *)
(*                  Interpreter it runs on                                 *)
(*   timers         the setTimeout callbacks not yet run, oldest first     *)
(*   runs           how many times startExecution was called               *)
(*   applied        the latest event handled by a loop: of which           *)
(*                  generator, and whether generatorRef.current was that   *)
(*                  generator then                                         *)
(*   lastNext       the latest next(): on which generator, from which      *)
(*                  handler, with which argument, whether the generator    *)
(*                  was suspended on an Input and for which type, whether  *)
(*                  the input form was shown, and how many continuations   *)
(*                  of loop were armed for that generator                  *)
(***************************************************************************)
\* the step budget of one turn of the loop: the 500 of `steps < 500`
StepBudget == 2
MaxRuns == 2
MaxOutput == 3

\* 1 Algorithm Drive
\* 2 Var n : Integer
\* 3 Begin
\* 4   Read(n)
\* 5   Write(n)
\* 6   Write(n)
\* 7 End
DriveProgram ==
    Program(
        <<VarDecl(<<"n">>, TInteger, <<>>)>>,
        <<>>,
        <<ReadStmt(<<Id("n")>>, 4), WriteStmt(<<Id("n")>>, 5), WriteStmt(<<Id("n")>>, 6)>>,
        1)
\* 1 Algorithm Fault
\* 2 Begin
\* 3   Write(z)
\* 4 End
FaultProgram == Program(<<>>, <<>>, <<WriteStmt(<<Id("z")>>, 3)>>, 1)
\* the text of the editor when Run is clicked
DriverPrograms == {DriveProgram, FaultProgram}
\* the breakpoints set in the gutter before the first Run
DriverBreakpoints == {{}, {5}}
\* what the user types into the input form
InputValues == {<<"1">>, <<" ", "7">>, <<"x">>}

\* String.prototype.trim
RECURSIVE trim(_)
trim(chars) ==
    IF chars = <<>> THEN chars
    ELSE IF isWhitespace(Head(chars)) THEN trim(Tail(chars))
    ELSE IF isWhitespace(chars[Len(chars)]) THEN trim(SubSeq(chars, 1, Len(chars) - 1))
    ELSE chars
\* /^-?\d+$/
IsIntegerText(chars) ==
    LET digits == IF chars # <<>> /\ Head(chars) = "-" THEN Tail(chars) ELSE chars
    IN  digits # <<>> /\ \A i \in 1..Len(digits) : IsDigit(digits[i])
\* /^-?\d+(\.\d+)?$/
IsDecimalText(chars) ==
    \/ IsIntegerText(chars)
    \/ \E i \in 2..(Len(chars) - 1) :
          /\ chars[i] = "."
          /\ IsIntegerText(SubSeq(chars, 1, i - 1))
          /\ \A j \in (i + 1)..Len(chars) : IsDigit(chars[j])
validateInput(val, type) ==
    CASE type = "Integer" -> IsIntegerText(val)
      [] type = "Real" -> IsDecimalText(val) \/ IsIntegerText(val)
      [] type = "Boolean" ->
            toLowerCase(val) \in {<<"t", "r", "u", "e">>, <<"f", "a", "l", "s", "e">>}
      [] OTHER -> TRUE

NoResult == [done |-> TRUE, value |-> [type |-> "none"], gen |-> 0]
StartTimer == [kind |-> "start", result |-> NoResult, stepOver |-> FALSE]
\* setTimeout(loop, 0): the closure keeps result and stepOver
LoopTimer(latest, over) == [kind |-> "loop", result |-> latest, stepOver |-> over]
LoopTimers(d, g) ==
    {i \in 1..Len(d.timers) : d.timers[i].kind = "loop" /\ d.timers[i].result.gen = g}
OutputLine(kind, text) == [kind |-> kind, text |-> text]

\* the generator is suspended on the yield of an Input event
SuspendedOnInput(m) == m.status = "suspendedYield" /\ Last(m.events).type = "input"
\* generatorRef.current.next(arg), called from handler by; a generator that has
\* returned stays done
nextOn(d, g, m, by, arg) ==
    [d EXCEPT !.generators[g] = IF m.status = "closed" THEN m ELSE NextResult(m, arg),
              !.lastNext = [gen |-> g, by |-> by, arg |-> arg,
                            pending |-> SuspendedOnInput(m),
                            varType |-> IF SuspendedOnInput(m)
                                        THEN Last(m.events).varType ELSE "",
                            waiting |-> d.isWaitingForInput,
                            loops |-> Cardinality(LoopTimers(d, g))]]
driverNext(d, by, arg) == nextOn(d, d.generatorRef, d.generators[d.generatorRef], by, arg)
\* the { value, done } that the latest next() on generator g returned
resultOf(d, g) ==
    IF d.generators[g].status = "closed" THEN [NoResult EXCEPT !.gen = g]
    ELSE [done |-> FALSE, value |-> Last(d.generators[g].events), gen |-> g]

stopExecution(d) ==
    [d EXCEPT !.isRunning = FALSE, !.isPaused = FALSE, !.isWaitingForInput = FALSE,
              !.activeLine = 0, !.generatorRef = 0]

\* a call of loop(): d is the driver, latest and stepOver are the result and stepOver
\* of its closure, steps its counter, by the handler that called processGenerator,
\* caught whether it runs inside the try of processGenerator (a continuation does not)
LoopCall(d, latest, over, steps, by, caught) ==
    [op |-> "loop", d |-> d, latest |-> latest, stepOver |-> over, steps |-> steps,
     by |-> by, caught |-> caught, injectedValue |-> UndefV]
\* the body of the while up to `result = generatorRef.current!.next()`: returned tells
\* that the loop has returned
handleEvent(d, event, over) ==
    CASE event.type = "step" ->
           [d |-> [d EXCEPT !.activeLine = event.line,
                            !.isPaused = @ \/ over \/ event.line \in d.breakpoints],
            returned |-> over \/ event.line \in d.breakpoints]
      [] event.type = "output" ->
           [d |-> [d EXCEPT !.output = Append(@, OutputLine("event", event.value))],
            returned |-> FALSE]
      [] event.type = "error" ->
           [d |-> stopExecution([d EXCEPT !.errors =
                                     Append(@, OutputLine("event", event.value))]),
            returned |-> TRUE]
      [] event.type = "input" ->
           [d |-> [d EXCEPT !.isWaitingForInput = TRUE, !.expectedType = event.varType],
            returned |-> TRUE]
      [] OTHER -> [d |-> d, returned |-> FALSE]
\* the loop has an event of generator latest.gen in hand
Handling(d, latest) ==
    [d EXCEPT !.applied = [gen |-> latest.gen, type |-> latest.value.type,
                           stale |-> d.generatorRef # latest.gen]]
\* processGenerator and loop call each other through drive
RECURSIVE drive(_)
loop(call) == drive([call EXCEPT !.op = "loop"])
\* result = generatorRef.current!.next(); steps++ and the while test again; next of
\* null is a TypeError, which only the try of processGenerator catches
nextTurn(d, call) ==
    IF d.generatorRef = 0
    THEN IF call.caught
         THEN stopExecution([d EXCEPT !.errors = Append(@, OutputLine("system", <<>>))])
         ELSE d
    ELSE drive([call EXCEPT !.op = "next", !.d = d, !.injectedValue = UndefV,
                            !.steps = @ + 1])
drive(call) ==
    CASE call.op = "next" ->
           \* result = generatorRef.current.next(injectedValue) and loop() after it
           Bind(driverNext(call.d, call.by, call.injectedValue), LAMBDA d1 :
               loop([call EXCEPT !.d = d1, !.latest = resultOf(d1, d1.generatorRef)]))
      [] call.op = "loop" ->
           IF ~call.latest.done /\ call.steps < StepBudget
           THEN Bind(handleEvent(Handling(call.d, call.latest), call.latest.value,
                                 call.stepOver),
                     LAMBDA handled : IF handled.returned THEN handled.d
                                      ELSE nextTurn(handled.d, call))
           ELSE IF call.latest.done THEN stopExecution(call.d)
           ELSE [call.d EXCEPT !.timers = Append(@, LoopTimer(call.latest, call.stepOver))]

processGenerator(d, injectedValue, over, by) ==
    IF d.generatorRef = 0 THEN d
    ELSE drive([LoopCall(d, NoResult, over, 0, by, TRUE) EXCEPT
                    !.op = "next", !.injectedValue = injectedValue])

\* the Run button, shown while nothing runs
startExecution ==
    /\ ~driver.isRunning /\ driver.runs < MaxRuns
    /\ driver' = [driver EXCEPT !.isRunning = TRUE, !.isPaused = FALSE,
                                !.isWaitingForInput = FALSE, !.activeLine = 0,
                                !.output = <<>>, !.errors = <<>>,
                                !.timers = Append(@, StartTimer), !.runs = @ + 1]
    /\ UNCHANGED <<interpreterVars, lexer, parser, calc>>
\* the Pause button, shown while the program runs and is not paused
pauseExecution ==
    /\ driver.isRunning /\ ~driver.isPaused
    /\ driver' = [driver EXCEPT !.isPaused = TRUE]
    /\ UNCHANGED <<interpreterVars, lexer, parser, calc>>
\* the Step button, shown while the program runs and is paused
stepOver ==
    /\ driver.isRunning /\ driver.isPaused
    /\ driver' = processGenerator(driver, UndefV, TRUE, "stepOver")
    /\ UNCHANGED <<interpreterVars, lexer, parser, calc>>
\* the Resume button, shown while the program runs and is paused
resumeExecution ==
    /\ driver.isRunning /\ driver.isPaused
    /\ driver' = processGenerator([driver EXCEPT !.isPaused = FALSE], UndefV, FALSE,
                                  "resumeExecution")
    /\ UNCHANGED <<interpreterVars, lexer, parser, calc>>
\* the Stop button, shown while the program runs
stopClicked ==
    /\ driver.isRunning
    /\ driver' = stopExecution(driver)
    /\ UNCHANGED <<interpreterVars, lexer, parser, calc>>
\* the input form, shown while isWaitingForInput
handleInputSubmit ==
    /\ driver.isWaitingForInput
    /\ \E inputValue \in InputValues :
          IF ~validateInput(trim(inputValue), driver.expectedType)
          THEN /\ Len(driver.output) < MaxOutput
               /\ driver' = [driver EXCEPT !.output =
                                @ \o <<OutputLine("echo", inputValue),
                                       OutputLine("expected", <<>>)>>]
          ELSE driver' = processGenerator(
                             [driver EXCEPT !.output = Append(@, OutputLine("echo", inputValue)),
                                            !.isWaitingForInput = FALSE],
                             StrV(inputValue), FALSE, "handleInputSubmit")
    /\ UNCHANGED <<interpreterVars, lexer, parser, calc>>
\* the timers run in the order of their deadlines: a continuation (0 ms) after the
\* continuations armed before it, the callback of startExecution (50 ms) after
\* everything armed before it
Due(d, i) ==
    IF d.timers[i].kind = "start" THEN i = 1
    ELSE \A j \in 1..(i - 1) : d.timers[j].kind = "start"
Disarm(d, i) ==
    [d EXCEPT !.timers = SubSeq(@, 1, i - 1) \o SubSeq(@, i + 1, Len(@))]
\* the callback of startExecution; the text of the editor lexes and parses
startTimer ==
    /\ driver.timers # <<>> /\ driver.timers[1].kind = "start"
    /\ \E ast \in DriverPrograms :
          LET created == [Disarm(driver, 1) EXCEPT
                              !.generators = Append(@, FreshMachine(ast)),
                              !.generatorRef = Len(driver.generators) + 1]
          IN  driver' = processGenerator(created, UndefV, FALSE, "startExecution")
    /\ UNCHANGED <<interpreterVars, lexer, parser, calc>>
\* a continuation of loop
loopTimer ==
    /\ \E i \in 1..Len(driver.timers) :
          /\ driver.timers[i].kind = "loop" /\ Due(driver, i)
          /\ driver' = loop(LoopCall(Disarm(driver, i), driver.timers[i].result,
                                     driver.timers[i].stepOver, 0, "loop", FALSE))
    /\ UNCHANGED <<interpreterVars, lexer, parser, calc>>

DriverInit ==
    /\ InterpreterInit /\ lexer = NewLexer(<<>>) /\ parser = IdleParser /\ calc = IdleCalc
    /\ \E marked \in DriverBreakpoints : driver = [IdleDriver EXCEPT !.breakpoints = marked]
DriverNext ==
    \/ startExecution
    \/ startTimer
    \/ loopTimer
    \/ pauseExecution
    \/ stepOver
    \/ resumeExecution
    \/ stopClicked
    \/ handleInputSubmit
DriverSpec == DriverInit /\ [][DriverNext]_vars

(***************************************************************************)
(* One loop at a time, and nothing after Stop.                             *)
(***************************************************************************)
\* the continuations of loop armed for generator g
ArmedLoops(g) == Cardinality(LoopTimers(driver, g))

\* C29: at most one loop of the driver, a call of processGenerator or its armed
\* continuation, advances a generator at a time, and once stopExecution has dropped
\* the generator no continuation handles a further event of it.
C29_SerialisedAdvances ==
    /\ \A g \in 1..Len(driver.generators) : ArmedLoops(g) <= 1
    /\ driver.lastNext.loops = 0
    /\ ~driver.applied.stale

\* Pause and Resume while a continuation is armed: the loop started by Resume arms a
\* second continuation for the same generator
C29_Witness ==
    /\ driver.generatorRef = 1 /\ ArmedLoops(1) = 2
    /\ driver.lastNext.by = "resumeExecution"
\* Stop while a continuation is armed: the continuation then handles the event it
\* kept, here an Output that it appends to the console of the stopped program
C29_StaleWitness ==
    /\ driver.generatorRef = 0 /\ ~driver.isRunning /\ driver.timers = <<>>
    /\ driver.applied = [gen |-> 1, type |-> "output", stale |-> TRUE]
    /\ driver.output # <<>> /\ driver.output[Len(driver.output)].kind = "event"
\* the run that the claim is about when nothing interferes: the program ends and the
\* driver drops the generator with no continuation armed
C29_QuietWitness ==
    /\ driver.generators # <<>> /\ driver.generators[1].status = "closed"
    /\ driver.generators[1].prog = DriveProgram
    /\ driver.generatorRef = 0 /\ driver.timers = <<>> /\ ~driver.applied.stale
    /\ driver.lastNext.by = "loop" /\ Len(driver.output) = 3

(***************************************************************************)
(* A pending Read is answered by the input form only.                      *)
(***************************************************************************)
\* C30: a next() on a generator that is suspended on an Input comes from
\* handleInputSubmit and carries a reply that validateInput accepts for the type the
\* Input asked for; Pause, Step and Resume never answer a pending Read.
C30_InputOnlyThroughSubmit ==
    driver.lastNext.pending =>
        /\ driver.lastNext.by = "handleInputSubmit"
        /\ driver.lastNext.arg.t = "str"
        /\ validateInput(trim(driver.lastNext.arg.s), driver.lastNext.varType)

\* the input form is shown, Pause is clicked and then Step: stepOver calls next() with
\* no reply on the generator suspended on Input n, and the Read stores 0
C30_Witness ==
    /\ driver.lastNext.pending /\ driver.lastNext.waiting
    /\ driver.lastNext.by = "stepOver" /\ driver.lastNext.arg = UndefV
    /\ driver.generatorRef = 1
    /\ LET m == driver.generators[1]
       IN  m.heap[m.cs[1].variables["n"]].value = NumV(0)
\* the same with Resume
C30_ResumeWitness ==
    /\ driver.lastNext.pending /\ driver.lastNext.waiting
    /\ driver.lastNext.by = "resumeExecution" /\ driver.lastNext.arg = UndefV
\* the reply " 7" passes validateInput once trimmed and answers the pending Read
C30_SubmitWitness ==
    /\ driver.lastNext.pending /\ driver.lastNext.by = "handleInputSubmit"
    /\ driver.lastNext.arg = StrV(<<" ", "7">>) /\ driver.lastNext.varType = "Real"

====
